---- MODULE Spec2Model ----
(***************************************************************************)
(* A model of mcp-proxy-server: the backend registry (data.ts), the        *)
(* broadcast and route request handlers (request.ts), the connect fan-out  *)
(* (clients.ts), the configuration generator and polling loop (config.ts), *)
(* the proxy start/dispose sequence (proxy.ts), the disposal cleanup       *)
(* (cleanup.ts) and the incremental reconciler (reconnectClients,          *)
(* disconnectClient and the timer-driven pollConfiguration).               *)
(*                                                                         *)
(* Every await of the source is a step boundary of the model: the code     *)
(* between two awaits is one action.                                       *)
(***************************************************************************)
EXTENDS Naturals, Sequences, FiniteSets

\* ------------------------------------------------------------------ bounds

\* Number of configuration fetches the generator may perform in one run.
MaxFetches == 3

\* ------------------------------------------------------- values of the model

\* A client handle is a positive number, allocated in creation order; 0 is
\* "no client" (undefined).
NoClient == 0

\* Backend descriptors (types.ts Server): { url } or { command, args }.
DUrl == [url |-> "http://u", command |-> "", args |-> << >>]
DCmd == [url |-> "", command |-> "cmd", args |-> << "x", "y" >>]

Srv(n, d) == [name |-> n, desc |-> d]

\* A configuration is the ordered list of Object.entries(mcp.servers).
EmptyServers == <<>>

\* The configurations a fetch may return.
Configs ==
    { EmptyServers,
      << Srv("a", DUrl) >>,
      << Srv("a", DUrl), Srv("b", DUrl) >>,
      << Srv("b", DUrl), Srv("a", DUrl) >>,
      << Srv("a", DCmd), Srv("b", DUrl) >> }

RECURSIVE Flatten(_)
Flatten(ss) == IF ss = << >> THEN << >> ELSE Head(ss) \o Flatten(Tail(ss))

\* JSON.stringify of a descriptor and of a configuration: the token sequence of
\* the serialisation, keys and array elements in their stored order.
StringifyServer(d) ==
    << "{", "url", d.url, "command", d.command, "args", "[" >> \o d.args \o << "]", "}" >>

Stringify(cfg) ==
    << "{" >> \o Flatten([i \in DOMAIN cfg |-> << cfg[i].name >> \o StringifyServer(cfg[i].desc)])
           \o << "}" >>

\* A comparison that finds every two configurations different.
areConfigurationsEqualNever(config1, config2) == FALSE

\* config.ts areConfigurationsEqual
areConfigurationsEqual(config1, config2) == Stringify(config1) = Stringify(config2)

Range(s) == { s[i] : i \in DOMAIN s }

ServerNames(cfg) == { cfg[i].name : i \in DOMAIN cfg }

\* configuration.mcp.servers[name], for a name the configuration holds.
DescOf(cfg, n) == (CHOOSE e \in Range(cfg) : e.name = n).desc

\* ------------------------------------------------------------ data.ts

\* Map.set keeps the position of an existing key and appends a new one.
setClientState(map, name, state) ==
    IF \E i \in DOMAIN map : map[i].name = name
    THEN [i \in DOMAIN map |-> IF map[i].name = name THEN state ELSE map[i]]
    ELSE Append(map, state)

removeClientState(map, name) ==
    SelectSeq(map, LAMBDA s : s.name # name)

getAllClients(map) == [i \in DOMAIN map |-> map[i].client]

getKeyFor(method) ==
    CASE method = "prompts/list" -> "prompts"
      [] method = "tools/list" -> "tools"
      [] method = "resources/list" -> "resources"
      [] method = "resources/templates/list" -> "resourceTemplates"
      [] OTHER -> method

getReadMethodFor(method) ==
    CASE method = "prompts/list" -> "prompts/get"
      [] method = "tools/list" -> "tools/call"
      [] method = "resources/list" -> "resources/read"
      [] OTHER -> method

\* A routing table whose entries are written once: the first client recorded for
\* an identifier stays.
setClientForFirst(pm, method, identifier, client) ==
    LET methodMap == IF method \in DOMAIN pm THEN pm[method] ELSE << >>
        newMap == [k \in DOMAIN methodMap \cup {identifier} |->
                      IF k \in DOMAIN methodMap THEN methodMap[k] ELSE client]
    IN [m \in DOMAIN pm \cup {method} |-> IF m = method THEN newMap ELSE pm[m]]

\* proxyMap: method -> (identifier -> client); both levels are Maps whose key
\* sets grow on demand.
setClientFor(pm, method, identifier, client) ==
    LET methodMap == IF method \in DOMAIN pm THEN pm[method] ELSE << >>
        newMap == [k \in DOMAIN methodMap \cup {identifier} |->
                      IF k = identifier THEN client ELSE methodMap[k]]
    IN [m \in DOMAIN pm \cup {method} |-> IF m = method THEN newMap ELSE pm[m]]

\* The outcome of getClientFor: the client, or the Error it throws.
getClientFor(pm, method, identifier) ==
    IF method \notin DOMAIN pm
    THEN [ok |-> FALSE, client |-> NoClient, error |-> "Error:NoClientsForMethod"]
    ELSE IF identifier \notin DOMAIN pm[method] \/ pm[method][identifier] = NoClient
    THEN [ok |-> FALSE, client |-> NoClient, error |-> "Error:ClientNotFound"]
    ELSE [ok |-> TRUE, client |-> pm[method][identifier], error |-> ""]

\* The class of what getClientFor throws: both throws are new Error(...)
\* (data.ts:80, 83).
ErrorClassOf(error) == IF error = "" THEN "none" ELSE "Error"

removeClientMappings(pm, client) ==
    [m \in DOMAIN pm |->
        [k \in { j \in DOMAIN pm[m] : pm[m][j] # client } |-> pm[m][k]]]

\* clearAllClientStates empties both tables.
clearedClientsStateMap(map) == << >>

clearedProxyMap(pm) == << >>

\* Every client some routing-table entry points to.
RoutedClients(pm) == UNION { { pm[m][k] : k \in DOMAIN pm[m] } : m \in DOMAIN pm }


\* ------------------------------------------------------------ state

VARIABLES
    clientsStateMap,   \* data.ts: name -> ClientState, in Map insertion order
    proxyMap,          \* data.ts: method -> identifier -> client
    transports,        \* per client: "pending", "open", "none" (undefined), "closed"
    closeCalls,        \* per client: invocations of transport.close()
    pollInterval,      \* env CONFIGURATION_POLL_INTERVAL
    gen,               \* generateConfiguration: pc, currentConfiguration, value,
                       \* fetches, kinds, yields
    proxyPc,           \* proxy(): position in the start sequence
    startResult,       \* what proxy() gave its caller
    server,            \* the outward endpoint: "unbound", "bound", "closed"
    serverCloseCalls,  \* invocations of server.close()
    aborted,           \* abortController.signal.aborted
    abortCalls,        \* invocations of abortController.abort()
    pollPc,            \* startConfigurationPolling: position / settled state
    unhandled,         \* configPolling rejected with no handler attached
    crashed,           \* the runtime ended the process on the unhandled rejection
    pass,              \* the connect pass in progress (connectClients)
    disp,              \* the disposal routine, per invocation
    bc,                \* listRequestHandler invocation (broadcast)
    rt,                \* readRequestHandler invocation (route)
    enumBy,            \* history: per (read method, identifier), the live clients
                       \* that enumerated it in the last broadcast that did
    rec,               \* the incremental reconciler: currentConfiguration, the
                       \* position of the pass in progress and its history
    ry,                \* retry (utils.ts) and the connect it wraps: position, options,
                       \* attempt; history: calls, waits, tried
    fan                \* the startup connectClients of a proxy() that starts the
                       \* polling task first (initializeConfiguration)

vars == << clientsStateMap, proxyMap, transports, closeCalls, pollInterval, gen,
           proxyPc, startResult, server, serverCloseCalls, aborted, abortCalls,
           pollPc, unhandled, crashed, pass, disp, bc, rt, enumBy, rec, ry, fan >>

registryVars == << clientsStateMap, proxyMap >>
transportVars == << transports, closeCalls >>
proxyVars == << proxyPc, startResult, server, serverCloseCalls >>
abortVars == << aborted, abortCalls >>
requestVars == << bc, rt, enumBy >>
lifecycleVars == << pollInterval, gen, proxyPc, startResult, serverCloseCalls, aborted,
                    abortCalls, pollPc, unhandled, crashed, pass, disp >>

\* The two invocations of the disposal routine a caller may make concurrently.
Disposers == {"d1", "d2"}

PollIntervals == {0, 1}

NoConfig == [set |-> FALSE, cfg |-> EmptyServers]
SomeConfig(c) == [set |-> TRUE, cfg |-> c]

\* config.ts defaultConfiguration
defaultConfiguration == EmptyServers

IdlePass == [owner |-> "none", pc |-> "idle", cfg |-> EmptyServers,
             pending |-> << >>, summary |-> << >>]

IdleBc == [status |-> "idle", method |-> "", clients |-> << >>, settled |-> << >>,
           raised |-> FALSE, rejected |-> 0, key |-> "", items |-> << >>,
           order |-> << >>]

\* The reconciler before its start. old, new, i, j, target: the arguments and the
\* position of reconnectClients; via: its caller. History of the pass in progress:
\* before (the registry at its start), connects and disconnects (operations
\* begun), closed (clients whose close() was invoked), failed (names whose connect
\* gave no transport or whose close threw), processed (names whose iteration ended).
IdleRec == [pc |-> "init", current |-> NoConfig, polls |-> 0, via |-> "",
            old |-> EmptyServers, new |-> EmptyServers, i |-> 1, j |-> 1,
            target |-> NoClient, before |-> << >>, connects |-> 0, disconnects |-> 0,
            closed |-> {}, failed |-> {}, processed |-> {}]

\* retry before its call. calls: the invocations of fn; waits: the delays
\* awaited; tried: per invocation, the transports a connect tried or how the
\* operation settled.
IdleRetry == [pc |-> "idle", fn |-> "", opts |-> << >>, attempt |-> 0, calls |-> 0,
              waits |-> << >>, tried |-> << >>, result |-> "pending"]

\* stale: the call was forwarded to a client whose transport had close() invoked.
\* answer: what the backend answered, "" before it did; reply: what clientRequest
\* made of it.
IdleRt == [status |-> "idle", method |-> "", identifier |-> "", client |-> NoClient,
           stale |-> FALSE, result |-> "", answer |-> "",
           reply |-> [status |-> "pending", list |-> FALSE, items |-> << >>]]

Init ==
    /\ clientsStateMap = << >>
    /\ proxyMap = << >>
    /\ transports = << >>
    /\ closeCalls = << >>
    /\ pollInterval \in PollIntervals
    /\ gen = [pc |-> "start", current |-> NoConfig, value |-> EmptyServers, fetches |-> 0,
              kinds |-> << >>, yields |-> 0]
    /\ proxyPc = "init"
    /\ startResult = "pending"
    /\ server = "unbound"
    /\ serverCloseCalls = 0
    /\ aborted = FALSE
    /\ abortCalls = 0
    /\ pollPc = "notStarted"
    /\ unhandled = FALSE
    /\ crashed = FALSE
    /\ pass = IdlePass
    /\ disp = [d \in Disposers |-> [pc |-> "idle", snap |-> << >>, closed |-> << >>,
                                   failed |-> {}, result |-> "pending"]]
    /\ bc = IdleBc
    /\ rt = IdleRt
    /\ enumBy = << >>
    /\ rec = IdleRec
    /\ ry = IdleRetry
    /\ fan = IdlePass

\* ------------------------------------------------ config.ts: the generator

\* What a fetch can come to (fetchConfiguration): a parsed configuration; a soft
\* failure, which returns defaultConfiguration; HTTP 401; a body that does not
\* parse or has no mcp.servers.
FetchOutcomes ==
    { [kind |-> "ok", cfg |-> c] : c \in Configs }
    \cup { [kind |-> "soft", cfg |-> defaultConfiguration],
           [kind |-> "auth", cfg |-> EmptyServers],
           [kind |-> "bad", cfg |-> EmptyServers] }

\* A generator that sleeps and fetches again whatever the interval.
GenAfterTryAlwaysSleeps(g) == [g EXCEPT !.pc = "sleep"]

\* generateConfiguration after the try/catch (config.ts:131-135): leave the loop
\* when polling is off, else sleep.
GenAfterTry(g) ==
    IF pollInterval <= 0 THEN [g EXCEPT !.pc = "returned"] ELSE [g EXCEPT !.pc = "sleep"]

\* The generator resumed by next(): from its start it fetches; from a yield it
\* goes on after the try/catch.
GenNext(g) ==
    IF g.pc = "start" THEN [g EXCEPT !.pc = "fetch", !.fetches = 1]
    ELSE IF g.pc = "yielded" THEN GenAfterTry(g)
    ELSE g

\* A fetchConfiguration that fails on every failure of the fetch.
FetchThrowsOnEveryFailure(kind) == kind \in {"bad", "soft"}

\* fetchConfiguration throws a ConfigurationError for a body that does not parse
\* or lacks mcp.servers (config.ts:73-82); for no URL, an invalid URL, a network
\* error, a timeout and a non-2xx status it returns defaultConfiguration.
FetchThrowsConfigurationError(kind) == kind = "bad"

\* A generator that rethrows every error of a fetch, not only the
\* AuthenticationError.
GenOnFetchRethrow(g, o) ==
    LET h == [g EXCEPT !.kinds = Append(g.kinds, o.kind)]
    IN IF o.kind \in {"auth", "bad"} THEN [h EXCEPT !.pc = "threw"]
       ELSE IF ~h.current.set \/ ~areConfigurationsEqual(h.current.cfg, o.cfg)
       THEN [h EXCEPT !.current = SomeConfig(o.cfg), !.value = o.cfg, !.pc = "yielded",
                      !.yields = h.yields + 1]
       ELSE GenAfterTry(h)

\* generateConfiguration when its fetch settles (config.ts:104-129).
\* kinds and yields are history: the outcomes of the fetches so far, and the
\* number of snapshots yielded.
GenOnFetch(g, o) ==
    LET h == [g EXCEPT !.kinds = Append(g.kinds, o.kind)]
    IN IF o.kind = "auth" THEN [h EXCEPT !.pc = "threw"]
       ELSE IF FetchThrowsConfigurationError(o.kind)
       THEN GenAfterTry([h EXCEPT !.current = IF h.current.set THEN h.current
                                                ELSE SomeConfig(defaultConfiguration)])
       ELSE IF ~h.current.set \/ ~areConfigurationsEqual(h.current.cfg, o.cfg)
       THEN [h EXCEPT !.current = SomeConfig(o.cfg), !.value = o.cfg, !.pc = "yielded",
                      !.yields = h.yields + 1]
       ELSE GenAfterTry(h)

\* The awaited fetch of the generator settles, with one of the given outcomes.
GenFetch(outcomes) ==
    /\ ~crashed
    /\ gen.pc = "fetch"
    /\ \E o \in outcomes : gen' = GenOnFetch(gen, o)
    /\ UNCHANGED << fan, ry, rec, registryVars, transportVars, pollInterval, proxyVars, abortVars,
                    pollPc, unhandled, crashed, pass, disp, requestVars >>

\* The delay(CONFIGURATION_POLL_INTERVAL) of the generator ends; the next fetch
\* starts, at most maxFetches of them.
GenWake(maxFetches) ==
    /\ ~crashed
    /\ gen.pc = "sleep"
    /\ gen.fetches < maxFetches
    /\ gen' = [gen EXCEPT !.pc = "fetch", !.fetches = gen.fetches + 1]
    /\ UNCHANGED << fan, ry, rec, registryVars, transportVars, pollInterval, proxyVars, abortVars,
                    pollPc, unhandled, crashed, pass, disp, requestVars >>


\* ------------------------------------------------ clients.ts: connectClients

\* The clients of the given states that hold a transport (client.transport?.).
WithTransport(states) ==
    { states[i].client : i \in { j \in DOMAIN states : states[j].transport } }

\* transport.close() invoked on every client of cs.
CloseTransports(ts, cs) == [c \in DOMAIN ts |-> IF c \in cs THEN "closed" ELSE ts[c]]

CountCloses(cc, cs) == [c \in DOMAIN cc |-> IF c \in cs THEN cc[c] + 1 ELSE cc[c]]

\* clients.ts:25-48 up to the await: with no servers, return at once; else create
\* one client per server, in entry order, and start every connect.
ConnectClientsBody(cfg, owner) ==
    IF Len(cfg) = 0
    THEN /\ pass' = [owner |-> owner, pc |-> "done", cfg |-> cfg,
                     pending |-> << >>, summary |-> << >>]
         /\ UNCHANGED transportVars
    ELSE /\ pass' = [owner |-> owner, pc |-> "connecting", cfg |-> cfg,
                     pending |-> [i \in 1..Len(cfg) |->
                                    [name |-> cfg[i].name,
                                     client |-> Len(transports) + i,
                                     status |-> "pending"]],
                     summary |-> << >>]
         /\ transports' = transports \o [i \in 1..Len(cfg) |-> "pending"]
         /\ closeCalls' = closeCalls \o [i \in 1..Len(cfg) |-> 0]

\* clients.ts:16-23 (and the same lines of the polling loop, config.ts:147-154):
\* with clients registered, invoke close() on each and await them all; else go on.
ConnectClientsCall(cfg, owner) ==
    IF Len(clientsStateMap) > 0
    THEN /\ transports' = CloseTransports(transports, WithTransport(clientsStateMap))
         /\ closeCalls' = CountCloses(closeCalls, WithTransport(clientsStateMap))
         /\ pass' = [owner |-> owner, pc |-> "closing", cfg |-> cfg,
                     pending |-> << >>, summary |-> << >>]
    ELSE ConnectClientsBody(cfg, owner)

\* The awaited closes have settled: clearAllClientStates(), then connect.
PassAfterClose ==
    /\ ~crashed
    /\ pass.pc = "closing"
    /\ clientsStateMap' = clearedClientsStateMap(clientsStateMap)
    /\ proxyMap' = clearedProxyMap(proxyMap)
    /\ ConnectClientsBody(pass.cfg, pass.owner)
    /\ UNCHANGED << fan, ry, rec, pollInterval, gen, proxyVars, abortVars, pollPc, unhandled,
                    crashed, disp, requestVars >>

\* A callback that registers the state whether or not a transport came back.
ConnectCallbackAlways(map, p, transport) ==
    [map |-> setClientState(map, p.name,
                [name |-> p.name, client |-> p.client, transport |-> transport]),
     status |-> "fulfilled"]

\* clients.ts:36-46, one server's callback after its connect settled: with a
\* transport the state is registered, without one the callback throws.
ConnectCallback(map, p, transport) ==
    IF transport
    THEN [map |-> setClientState(map, p.name,
                     [name |-> p.name, client |-> p.client, transport |-> TRUE]),
          status |-> "fulfilled"]
    ELSE [map |-> map, status |-> "rejected"]

\* connect(client, server) of one server settles: a transport, or undefined after
\* the retries (connect never throws).
ConnectSettles ==
    /\ ~crashed
    /\ pass.pc = "connecting"
    /\ \E i \in DOMAIN pass.pending, transport \in BOOLEAN :
          /\ pass.pending[i].status = "pending"
          /\ LET r == ConnectCallback(clientsStateMap, pass.pending[i], transport)
             IN /\ clientsStateMap' = r.map
                /\ pass' = [pass EXCEPT !.pending[i].status = r.status]
          /\ transports' = [transports EXCEPT ![pass.pending[i].client] =
                               IF transport THEN "open" ELSE "none"]
    /\ UNCHANGED << fan, ry, rec, proxyMap, closeCalls, pollInterval, gen, proxyVars, abortVars,
                    pollPc, unhandled, crashed, disp, requestVars >>

Successful(pending) ==
    Cardinality({ i \in DOMAIN pending : pending[i].status = "fulfilled" })

\* clients.ts:50-52, the summary "Connected to s/n servers".
ConnectSummary(pending) == << Successful(pending), Len(pending) >>

\* Promise.allSettled has every result: log the summary and return.
ConnectClientsFinish ==
    /\ ~crashed
    /\ pass.pc = "connecting"
    /\ \A i \in DOMAIN pass.pending : pass.pending[i].status # "pending"
    /\ pass' = [pass EXCEPT !.pc = "done", !.summary = ConnectSummary(pass.pending)]
    /\ UNCHANGED << fan, ry, rec, registryVars, transportVars, pollInterval, gen, proxyVars,
                    abortVars, pollPc, unhandled, crashed, disp, requestVars >>

\* ------------------------------------------------ proxy.ts: the start sequence

\* proxy.ts:20-30: handlers set, the first configGen.next() awaited.
ProxyStart ==
    /\ ~crashed
    /\ proxyPc = "init"
    /\ proxyPc' = "awaitFirst"
    /\ gen' = GenNext(gen)
    /\ UNCHANGED << fan, ry, rec, registryVars, transportVars, pollInterval, startResult, server,
                    serverCloseCalls, abortVars, pollPc, unhandled, crashed, pass,
                    disp, requestVars >>

\* proxy.ts:36-37: the first snapshot arrived; connectClients(config).
ProxyFirstSnapshot ==
    /\ ~crashed
    /\ proxyPc = "awaitFirst"
    /\ gen.pc = "yielded"
    /\ proxyPc' = "connecting"
    /\ ConnectClientsCall(gen.value, "startup")
    /\ UNCHANGED << fan, ry, rec, registryVars, pollInterval, gen, startResult, server,
                    serverCloseCalls, abortVars, pollPc, unhandled, crashed, disp,
                    requestVars >>

\* A catch block that wraps every error.
StartFailureWrapped(genPc) == "ProxyError"

\* proxy.ts:43-47: the catch block of proxy() rethrows an AuthenticationError
\* and wraps every other error into a ProxyError.
StartFailure(genPc) == IF genPc = "threw" THEN "AuthenticationError" ELSE "ProxyError"

\* proxy.ts:32-34, 43-47: the generator ended without a snapshot; the
\* ConfigurationError is wrapped into a ProxyError.
ProxyNoSnapshot ==
    /\ ~crashed
    /\ proxyPc = "awaitFirst"
    /\ gen.pc = "returned"
    /\ proxyPc' = "failed"
    /\ startResult' = StartFailure(gen.pc)
    /\ UNCHANGED << fan, ry, rec, registryVars, transportVars, pollInterval, gen, server,
                    serverCloseCalls, abortVars, pollPc, unhandled, crashed, pass,
                    disp, requestVars >>

\* proxy.ts:43-46: the first fetch was a 401; the AuthenticationError is rethrown.
ProxyAuthFailure ==
    /\ ~crashed
    /\ proxyPc = "awaitFirst"
    /\ gen.pc = "threw"
    /\ proxyPc' = "failed"
    /\ startResult' = StartFailure(gen.pc)
    /\ UNCHANGED << fan, ry, rec, registryVars, transportVars, pollInterval, gen, server,
                    serverCloseCalls, abortVars, pollPc, unhandled, crashed, pass,
                    disp, requestVars >>

\* A start that calls connectClients without awaiting it.
StartupConnectsNotAwaited(p) == p.owner = "startup"

\* proxy.ts:37: await connectClients(config) has returned.
StartupConnectsDone(p) == p.owner = "startup" /\ p.pc = "done"

\* proxy.ts:38: connectClients returned; server.connect(transport) is awaited.
ProxyConnected ==
    /\ ~crashed
    /\ proxyPc = "connecting"
    /\ StartupConnectsDone(pass)
    /\ proxyPc' = "binding"
    /\ pass' = IdlePass
    /\ UNCHANGED << fan, ry, rec, registryVars, transportVars, pollInterval, gen, startResult,
                    server, serverCloseCalls, abortVars, pollPc, unhandled, crashed,
                    disp, requestVars >>

\* proxy.ts:40-42: the endpoint is bound; startConfigurationPolling runs up to its
\* first await, the next() of its for-await.
ProxyBound ==
    /\ ~crashed
    /\ proxyPc = "binding"
    /\ proxyPc' = "started"
    /\ server' = "bound"
    /\ startResult' = "started"
    /\ pollPc' = "waiting"
    /\ gen' = GenNext(gen)
    /\ UNCHANGED << fan, ry, rec, registryVars, transportVars, pollInterval, serverCloseCalls,
                    abortVars, unhandled, crashed, pass, disp, requestVars >>

\* proxy.ts:38, 43-47: server.connect threw; wrapped into a ProxyError.
ProxyBindFailure ==
    /\ ~crashed
    /\ proxyPc = "binding"
    /\ proxyPc' = "failed"
    /\ startResult' = "ProxyError"
    /\ UNCHANGED << fan, ry, rec, registryVars, transportVars, pollInterval, gen, server,
                    serverCloseCalls, abortVars, pollPc, unhandled, crashed, pass,
                    disp, requestVars >>

\* ------------------------------------ config.ts: startConfigurationPolling

\* A loop body that does not read the abort signal.
LoopIgnoresAbort(signal) == FALSE

\* config.ts:145: if (abortController.signal.aborted) break
LoopSeesAbort(signal) == signal

\* config.ts:144-145: a snapshot arrives after abort: break, which returns the
\* generator, and the task resolves.
PollBreaks ==
    /\ ~crashed
    /\ pollPc = "waiting"
    /\ gen.pc = "yielded"
    /\ LoopSeesAbort(aborted)
    /\ gen' = [gen EXCEPT !.pc = "returned"]
    /\ pollPc' = "resolved"
    /\ UNCHANGED << fan, ry, rec, registryVars, transportVars, pollInterval, proxyVars, abortVars,
                    unhandled, crashed, pass, disp, requestVars >>

\* config.ts:144-155: a snapshot arrives: disconnect what is registered, then
\* connectClients(config).
PollReceives ==
    /\ ~crashed
    /\ pollPc = "waiting"
    /\ gen.pc = "yielded"
    /\ ~LoopSeesAbort(aborted)
    /\ pollPc' = "inPass"
    /\ ConnectClientsCall(gen.value, "poll")
    /\ UNCHANGED << fan, ry, rec, registryVars, pollInterval, gen, proxyVars, abortVars, unhandled,
                    crashed, disp, requestVars >>

\* config.ts:155-156, 144: connectClients returned; the loop asks for the next
\* snapshot.
PollPassDone ==
    /\ ~crashed
    /\ pollPc = "inPass"
    /\ pass.owner = "poll" /\ pass.pc = "done"
    /\ pass' = IdlePass
    /\ pollPc' = "waiting"
    /\ gen' = GenNext(gen)
    /\ UNCHANGED << fan, ry, rec, registryVars, transportVars, pollInterval, proxyVars, abortVars,
                    unhandled, crashed, disp, requestVars >>

\* The generator returned (polling off): the loop ends, the task resolves.
PollGeneratorReturned ==
    /\ ~crashed
    /\ pollPc = "waiting"
    /\ gen.pc = "returned"
    /\ pollPc' = "resolved"
    /\ UNCHANGED << fan, ry, rec, registryVars, transportVars, pollInterval, gen, proxyVars,
                    abortVars, unhandled, crashed, pass, disp, requestVars >>

\* config.ts:157-160: the generator threw the AuthenticationError; it is rethrown
\* and the task rejects. proxy.ts attaches a handler to configPolling only inside
\* the disposal routine (proxy.ts:53).
PollGeneratorThrew ==
    /\ ~crashed
    /\ pollPc = "waiting"
    /\ gen.pc = "threw"
    /\ pollPc' = "rejected"
    /\ unhandled' = (\A d \in Disposers : disp[d].pc # "awaitPolling")
    /\ UNCHANGED << fan, ry, rec, registryVars, transportVars, pollInterval, gen, proxyVars,
                    abortVars, crashed, pass, disp, requestVars >>

\* The runtime's policy for an unhandled rejection may end the process.
RuntimeEndsProcess ==
    /\ ~crashed
    /\ unhandled
    /\ crashed' = TRUE
    /\ UNCHANGED << fan, ry, rec, registryVars, transportVars, pollInterval, gen, proxyVars,
                    abortVars, pollPc, unhandled, pass, disp, requestVars >>


\* ------------------------------------ proxy.ts:50-57 and cleanup.ts: disposal

\* A disposal that does not wait for the polling task.
PollingSettledAlways(pc) == TRUE

\* proxy.ts:53: `await configPolling?.catch(() => {})` goes on once the polling task
\* resolved or rejected.
PollingSettled(pc) == pc \in {"resolved", "rejected"}

\* proxy.ts:52-53: abort, then await configPolling with its rejection swallowed.
DisposeCall(d) ==
    /\ ~crashed
    /\ proxyPc = "started"
    /\ disp[d].pc = "idle"
    /\ aborted' = TRUE
    /\ abortCalls' = abortCalls + 1
    /\ disp' = [disp EXCEPT ![d].pc = "awaitPolling"]
    /\ UNCHANGED << fan, ry, rec, registryVars, transportVars, pollInterval, gen, proxyVars, pollPc,
                    unhandled, crashed, pass, requestVars >>

\* cleanup.ts:7-16: the polling task has settled (a rejection is discarded by the
\* catch handler); cleanup() snapshots the registry and awaits each transport.
DisposeCleanup(d) ==
    /\ ~crashed
    /\ disp[d].pc = "awaitPolling"
    /\ PollingSettled(pollPc)
    /\ disp' = [disp EXCEPT ![d].pc = "cleanup", ![d].snap = clientsStateMap]
    /\ UNCHANGED << fan, ry, rec, registryVars, transportVars, pollInterval, gen, proxyVars,
                    abortVars, pollPc, unhandled, crashed, pass, requestVars >>

\* A cleanup that closes one transport after the other and stops at the first
\* close that fails.
CleanupClosesUntilFailure(states, failing) ==
    { states[i].client :
        i \in { j \in DOMAIN states :
                  /\ states[j].transport
                  /\ \A k \in 1..(j - 1) : states[k].client \notin failing } }

\* cleanup.ts:13-25: the clients on which close() is invoked. Every callback of
\* clients.map runs, each with its own try/catch, whichever closes fail.
CleanupCloses(states, failing) == WithTransport(states)

\* cleanup.ts:17-20: close() is invoked on every transport of the snapshot; a close
\* that throws is caught and logged (cleanup.ts:21-23). failed is history: the
\* clients whose close failed.
DisposeCloses(d) ==
    /\ ~crashed
    /\ disp[d].pc = "cleanup"
    /\ \E failing \in SUBSET WithTransport(disp[d].snap) :
          /\ transports' = CloseTransports(transports, CleanupCloses(disp[d].snap, failing))
          /\ closeCalls' = CountCloses(closeCalls, CleanupCloses(disp[d].snap, failing))
          /\ disp' = [disp EXCEPT ![d].pc = "closing",
                                  ![d].closed = getAllClients(disp[d].snap),
                                  ![d].failed = failing]
    /\ UNCHANGED << fan, ry, rec, registryVars, pollInterval, gen, proxyVars, abortVars, pollPc,
                    unhandled, crashed, pass, requestVars >>

\* proxy.ts:55: cleanup() returned; server.close() is invoked and awaited.
DisposeServerClose(d) ==
    /\ ~crashed
    /\ disp[d].pc = "closing"
    /\ server' = "closed"
    /\ serverCloseCalls' = serverCloseCalls + 1
    /\ disp' = [disp EXCEPT ![d].pc = "serverClosing"]
    /\ UNCHANGED << fan, ry, rec, registryVars, transportVars, pollInterval, gen, proxyPc,
                    startResult, abortVars, pollPc, unhandled, crashed, pass,
                    requestVars >>

\* The disposal routine returns to its caller, always normally.
DisposeReturns(d) ==
    /\ ~crashed
    /\ disp[d].pc = "serverClosing"
    /\ disp' = [disp EXCEPT ![d].pc = "done", ![d].result = "returned"]
    /\ UNCHANGED << fan, ry, rec, registryVars, transportVars, pollInterval, gen, proxyVars,
                    abortVars, pollPc, unhandled, crashed, pass, requestVars >>

\* ------------------------------------------------ request.ts: the handlers

Item(n, u) == [name |-> n, uri |-> u]

\* What one backend can answer to an enumeration: a list under the key, a result
\* without a list, or an McpError / other error.
BackendLists(method) ==
    IF method = "resources/list"
    THEN { << Item("x", "ux") >> }
    ELSE { << Item("x", "") >>, << Item("y", ""), Item("x", "") >> }

BackendOutcomes(method) ==
    { [kind |-> "ok", items |-> l] : l \in BackendLists(method) }
    \cup { [kind |-> k, items |-> << >>] :
              k \in {"nolist", "MethodNotFound", "RequestTimeout", "Error"} }

\* A request to a client whose transport was closed can only fail.
BackendCanAnswer(c, kind) == transports[c] = "open" \/ kind = "Error"

\* A clientRequest that turns every error of the backend into a ClientRequestError.
clientRequestFailsOnEveryError(o) ==
    IF o.kind \in {"ok", "nolist"}
    THEN [status |-> "fulfilled", list |-> o.kind = "ok", items |-> o.items]
    ELSE [status |-> "rejected", list |-> FALSE, items |-> << >>]

\* request.ts:27-57 clientRequest: the backend's result verbatim; {} for
\* MethodNotFound and RequestTimeout; any other error as a ClientRequestError.
clientRequest(o) ==
    CASE o.kind \in {"ok", "nolist"} ->
            [status |-> "fulfilled", list |-> o.kind = "ok", items |-> o.items]
      [] o.kind \in {"MethodNotFound", "RequestTimeout"} ->
            [status |-> "fulfilled", list |-> FALSE, items |-> << >>]
      [] OTHER ->
            [status |-> "rejected", list |-> FALSE, items |-> << >>]

PendingRequest == [status |-> "pending", list |-> FALSE, items |-> << >>]

\* utils.ts prefix(`[${name}] `, item, "description"): the item with its origin.
prefix(client, item) == [name |-> item.name, uri |-> item.uri, from |-> client]

RECURSIVE RecordItems(_, _, _, _)
\* request.ts:139-142: setClientFor(readMethod, item.name, client) per item.
RecordItems(pm, readMethod, items, client) ==
    IF items = << >> THEN pm
    ELSE RecordItems(setClientFor(pm, readMethod, Head(items).name, client),
                     readMethod, Tail(items), client)

\* request.ts:134-145, the contribution of one settled result.
SettledItems(r, client) ==
    IF r.status = "fulfilled" /\ r.list
    THEN [i \in DOMAIN r.items |-> prefix(client, r.items[i])]
    ELSE << >>

\* A merge that takes the results in the order in which they arrived.
FoldSequenceByArrival(settled, order) == order

\* request.ts:125-131: Promise.allSettled gives the results in the order of the
\* clients array, and flatMap walks them by index; the order of arrival is lost.
FoldSequence(settled, order) == [i \in DOMAIN settled |-> i]

RECURSIVE ListFold(_, _, _, _, _, _)
\* request.ts:131-146: the flatMap over the settled results, seq being the
\* indices in the order in which it takes them.
ListFold(settled, clients, seq, readMethod, pm, acc) ==
    IF seq = << >> THEN [pm |-> pm, items |-> acc]
    ELSE LET i == Head(seq)
             its == SettledItems(settled[i], clients[i])
         IN ListFold(settled, clients, Tail(seq), readMethod,
                     RecordItems(pm, readMethod, its, clients[i]), acc \o its)

\* A merge that fails as a whole when one request rejected (Promise.all).
ListResultFailFast(settled, clients, order, readMethod, pm) ==
    IF \E i \in DOMAIN settled : settled[i].status = "rejected"
    THEN [raised |-> TRUE, pm |-> pm, items |-> << >>]
    ELSE LET r == ListFold(settled, clients, FoldSequence(settled, order), readMethod,
                           pm, << >>)
         IN [raised |-> FALSE, pm |-> r.pm, items |-> r.items]

\* request.ts:125-148: what the handler returns once Promise.allSettled resolved,
\* and the routing table it leaves.
ListResult(settled, clients, order, readMethod, pm) ==
    LET r == ListFold(settled, clients, FoldSequence(settled, order), readMethod, pm, << >>)
    IN [raised |-> FALSE, pm |-> r.pm, items |-> r.items]

\* History: of the clients whose list holds identifier id, the last in enumeration
\* order and the others.
EnumeratorsOf(settled, clients, id) ==
    LET hit == { i \in DOMAIN settled :
                   \E k \in DOMAIN settled[i].items : settled[i].items[k].name = id }
        top == CHOOSE i \in hit : \A j \in hit : j <= i
    IN [last |-> clients[top], others |-> { clients[i] : i \in hit \ {top} }]

\* History entries forget the clients whose transport had close() invoked.
LiveEnumerators(e) ==
    [last |-> IF e.last # NoClient /\ transports[e.last] = "closed" THEN NoClient ELSE e.last,
     others |-> { c \in e.others : transports[c] # "closed" }]

EnumeratedIds(settled) ==
    UNION { { settled[i].items[k].name : k \in DOMAIN settled[i].items } :
            i \in DOMAIN settled }

\* request.ts:121-130: the handler reads the registry and sends the request to
\* every client.
Broadcast(methods) ==
    /\ ~crashed
    /\ server = "bound"
    /\ bc.status # "inflight"
    /\ \E method \in methods :
          bc' = [status |-> "inflight", method |-> method,
                 clients |-> getAllClients(clientsStateMap),
                 settled |-> [i \in DOMAIN clientsStateMap |-> PendingRequest],
                 raised |-> FALSE, rejected |-> 0, key |-> "", items |-> << >>,
                 order |-> << >>]
    /\ UNCHANGED << fan, ry, rec, registryVars, transportVars, pollInterval, gen, proxyVars,
                    abortVars, pollPc, unhandled, crashed, pass, disp, rt, enumBy >>

\* One backend answers the broadcast, with one of the given outcomes;
\* clientRequest settles for it.
BackendResponds(outcomes) ==
    /\ ~crashed
    /\ bc.status = "inflight"
    /\ \E i \in DOMAIN bc.settled, o \in outcomes :
          /\ bc.settled[i].status = "pending"
          /\ BackendCanAnswer(bc.clients[i], o.kind)
          /\ bc' = [bc EXCEPT !.settled[i] = clientRequest(o),
                               !.order = Append(bc.order, i)]
    /\ UNCHANGED << fan, ry, rec, registryVars, transportVars, pollInterval, gen, proxyVars,
                    abortVars, pollPc, unhandled, crashed, pass, disp, rt, enumBy >>

\* request.ts:131-148: every request settled; merge, record the routes, return.
BroadcastComplete ==
    /\ ~crashed
    /\ bc.status = "inflight"
    /\ \A i \in DOMAIN bc.settled : bc.settled[i].status # "pending"
    /\ LET readMethod == getReadMethodFor(bc.method)
           r == ListResult(bc.settled, bc.clients, bc.order, readMethod, proxyMap)
           ids == EnumeratedIds(bc.settled)
       IN /\ proxyMap' = r.pm
          /\ bc' = [status |-> "done", method |-> bc.method, clients |-> << >>,
                    settled |-> << >>, raised |-> r.raised,
                    rejected |-> Cardinality({ i \in DOMAIN bc.settled :
                                                 bc.settled[i].status = "rejected" }),
                    key |-> getKeyFor(bc.method), items |-> r.items,
                    order |-> bc.order]
          /\ enumBy' = [k \in DOMAIN enumBy \cup { << readMethod, id >> : id \in ids } |->
                          IF k[2] \in ids /\ k[1] = readMethod
                          THEN LiveEnumerators(EnumeratorsOf(bc.settled, bc.clients, k[2]))
                          ELSE LiveEnumerators(enumBy[k])]
    /\ UNCHANGED << fan, ry, rec, clientsStateMap, transportVars, pollInterval, gen, proxyVars,
                    abortVars, pollPc, unhandled, crashed, pass, disp, rt >>

\* The follow-up calls: tools/call names its tool; resources/read carries the uri,
\* and may carry a name too.
ToolCalls == { [method |-> "tools/call", name |-> n, uri |-> ""] : n \in {"x", "y"} }

ResourceReads == { [method |-> "resources/read", name |-> n, uri |-> "ux"] : n \in {"", "x"} }

\* request.ts:101: request.params?.name || request.params?.uri
IdentifierOf(req) == IF req.name # "" THEN req.name ELSE req.uri

\* request.ts:97-110 up to the await: look the client up and forward the request,
\* or throw what getClientFor throws. rt holds the latest call.
Route(requests) ==
    /\ ~crashed
    /\ server = "bound"
    /\ \E req \in requests :
          LET identifier == IdentifierOf(req)
              found == getClientFor(proxyMap, req.method, identifier)
          IN rt' = [status |-> IF found.ok THEN "forwarded" ELSE "failed",
                    method |-> req.method, identifier |-> identifier,
                    client |-> found.client,
                    stale |-> found.ok /\ transports[found.client] = "closed",
                    result |-> IF found.ok THEN "" ELSE found.error,
                    answer |-> "", reply |-> PendingRequest]
    /\ UNCHANGED << fan, ry, rec, registryVars, transportVars, pollInterval, gen, proxyVars,
                    abortVars, pollPc, unhandled, crashed, pass, disp, bc, enumBy >>

\* What the owning backend can answer to a routed call: a result, an McpError
\* MethodNotFound or RequestTimeout, or another error.
RouteOutcomes ==
    { [kind |-> k, items |-> << >>] :
        k \in {"nolist", "MethodNotFound", "RequestTimeout", "Error"} }

\* request.ts:104-110: the backend answers the forwarded request; clientRequest
\* settles.
RouteResponds ==
    /\ ~crashed
    /\ rt.status = "forwarded"
    /\ rt.answer = ""
    /\ \E o \in RouteOutcomes :
          /\ BackendCanAnswer(rt.client, o.kind)
          /\ rt' = [rt EXCEPT !.answer = o.kind, !.reply = clientRequest(o)]
    /\ UNCHANGED << fan, ry, rec, registryVars, transportVars, pollInterval, gen, proxyVars,
                    abortVars, pollPc, unhandled, crashed, pass, disp, bc, enumBy >>

\* The handler returns to its caller (request.ts:104-110), or has thrown what
\* getClientFor threw; rt is the call of the current turn only.
RouteReturns ==
    /\ ~crashed
    /\ rt.status = "failed" \/ (rt.status = "forwarded" /\ rt.answer # "")
    /\ rt' = IdleRt
    /\ UNCHANGED << fan, ry, rec, registryVars, transportVars, pollInterval, gen, proxyVars,
                    abortVars, pollPc, unhandled, crashed, pass, disp, bc, enumBy >>

\* ------------------------------------------- utils.ts: retry; connect

\* The largest maxRetries given to retry by a caller that passes options.
MaxRetries == 2

RECURSIVE Pow(_, _)
Pow(b, e) == IF e = 0 THEN 1 ELSE b * Pow(b, e - 1)

Min(a, b) == IF a <= b THEN a ELSE b

\* utils.ts:32-36, the defaults of the options; connect passes none.
DefaultRetryOptions ==
    [initialDelay |-> 1000, maxDelay |-> 30000, maxRetries |-> 3, backoffFactor |-> 2,
     fallbackValue |-> "undefined"]

\* The options a caller passes.
RetryOptions ==
    [initialDelay : {1, 500}, maxDelay : {1000, 30000}, maxRetries : 0..MaxRetries,
     backoffFactor : {1, 3}, fallbackValue : {"undefined", "fallback"}]

\* A delay that is not capped by maxDelay.
BackoffTimeUncapped(opts, attempt) == opts.initialDelay * Pow(opts.backoffFactor, attempt)

\* utils.ts:53: Math.min(initialDelay * backoffFactor ** attempt, maxDelay)
BackoffTime(opts, attempt) ==
    Min(opts.initialDelay * Pow(opts.backoffFactor, attempt), opts.maxDelay)

\* A try block that awaits the promise of fn only: a throw of fn itself escapes.
RetryCatchesRejectionsOnly(outcome) == outcome = "reject"

\* utils.ts:42-44: return await fn() stands inside the try, so the catch takes a
\* throw of fn and a rejection of its promise alike.
RetryCatches(outcome) == outcome \in {"throw", "reject"}

\* utils.ts:44-59: an invocation of fn failed.
RetryOnFailure(r, outcome) ==
    IF ~RetryCatches(outcome)
    THEN [r EXCEPT !.pc = "raised", !.result = "raised"]
    ELSE IF r.attempt >= r.opts.maxRetries
    THEN [r EXCEPT !.pc = "returned", !.result = r.opts.fallbackValue]
    ELSE [r EXCEPT !.pc = "waiting",
                   !.waits = Append(r.waits, BackoffTime(r.opts, r.attempt))]

\* utils.ts:43: fn returned a value; retry returns it.
RetryOnValue(r, value) == [r EXCEPT !.pc = "returned", !.result = value]

\* retry(fn, options) is called: with options for an operation, or by connect
\* (part_014:26-55) for a descriptor with a url, with a command only, or with
\* neither. The while condition holds (attempt = 0 <= maxRetries) and fn runs.
RetryCall ==
    /\ ~crashed
    /\ ry.pc = "idle"
    /\ \E call \in ({"op"} \X RetryOptions)
                    \cup ({"url", "command", "none"} \X {DefaultRetryOptions}) :
          ry' = [IdleRetry EXCEPT !.pc = "calling", !.fn = call[1], !.opts = call[2],
                                  !.calls = 1, !.tried = << << >> >>]
    /\ UNCHANGED << fan, rec, registryVars, transportVars, server, lifecycleVars, requestVars >>

\* The history tried with one more entry in the current invocation: the
\* transport a connect tried, or how the operation settled.
Tried(r, entry) == [r.tried EXCEPT ![Len(r.tried)] = Append(@, entry)]

\* The operation given to retry settles: a value, a throw, or a rejection.
FnSettles ==
    /\ ~crashed
    /\ ry.pc = "calling" /\ ry.fn = "op"
    /\ \E outcome \in {"value", "throw", "reject"} :
          LET r == [ry EXCEPT !.tried = Tried(ry, outcome)]
          IN ry' = IF outcome = "value" THEN RetryOnValue(r, "value")
                   ELSE RetryOnFailure(r, outcome)
    /\ UNCHANGED << fan, rec, registryVars, transportVars, server, lifecycleVars, requestVars >>

\* A connect without the SSE fallback: the failure of HTTP fails the invocation.
AfterHTTPFailureNoFallback(r) == RetryOnFailure(r, "reject")

\* part_014:35-41: the catch block of the HTTP attempt creates the SSE transport
\* from the same descriptor and connects on it.
AfterHTTPFailure(r) == [r EXCEPT !.pc = "sse"]

\* part_014:28-34: the descriptor has a url; client.connect on the Streamable
\* HTTP transport settles. On failure the catch block goes on to SSE.
ConnectHTTPSettles ==
    /\ ~crashed
    /\ ry.pc = "calling" /\ ry.fn = "url"
    /\ \E ok \in BOOLEAN :
          LET r == [ry EXCEPT !.tried = Tried(ry, "http")]
          IN ry' = IF ok THEN RetryOnValue(r, "http") ELSE AfterHTTPFailure(r)
    /\ UNCHANGED << fan, rec, registryVars, transportVars, server, lifecycleVars, requestVars >>

\* part_014:35-44: client.connect on the SSE transport of the same url settles;
\* its failure rejects the promise of fn.
ConnectSSESettles ==
    /\ ~crashed
    /\ ry.pc = "sse"
    /\ \E ok \in BOOLEAN :
          LET r == [ry EXCEPT !.tried = Tried(ry, "sse")]
          IN ry' = IF ok THEN RetryOnValue(r, "sse") ELSE RetryOnFailure(r, "reject")
    /\ UNCHANGED << fan, rec, registryVars, transportVars, server, lifecycleVars, requestVars >>

\* part_014:47-53: no url but a command; client.connect on the stdio transport
\* settles.
ConnectStdioSettles ==
    /\ ~crashed
    /\ ry.pc = "calling" /\ ry.fn = "command"
    /\ \E ok \in BOOLEAN :
          LET r == [ry EXCEPT !.tried = Tried(ry, "stdio")]
          IN ry' = IF ok THEN RetryOnValue(r, "stdio") ELSE RetryOnFailure(r, "reject")
    /\ UNCHANGED << fan, rec, registryVars, transportVars, server, lifecycleVars, requestVars >>

\* part_014:28, 47, 54: neither url nor command; fn returns undefined, and so
\* does retry, at once.
ConnectNothing ==
    /\ ~crashed
    /\ ry.pc = "calling" /\ ry.fn = "none"
    /\ ry' = RetryOnValue(ry, "undefined")
    /\ UNCHANGED << fan, rec, registryVars, transportVars, server, lifecycleVars, requestVars >>

\* utils.ts:57-58, 41-43: the delay ends; attempt++; the while condition holds
\* and fn runs again.
RetryDelayEnds ==
    /\ ~crashed
    /\ ry.pc = "waiting"
    /\ ry' = [ry EXCEPT !.pc = "calling", !.attempt = ry.attempt + 1,
                         !.calls = ry.calls + 1, !.tried = Append(ry.tried, << >>)]
    /\ UNCHANGED << fan, rec, registryVars, transportVars, server, lifecycleVars, requestVars >>

\* ------------------------------------------------------------ specifications

\* The life cycle of the proxy: start, polling with full resync, disposal.
Lifecycle ==
    \/ PassAfterClose
    \/ ConnectSettles
    \/ ConnectClientsFinish
    \/ ProxyStart
    \/ ProxyFirstSnapshot
    \/ ProxyNoSnapshot
    \/ ProxyAuthFailure
    \/ ProxyConnected
    \/ ProxyBound
    \/ ProxyBindFailure
    \/ PollBreaks
    \/ PollReceives
    \/ PollPassDone
    \/ PollGeneratorReturned
    \/ PollGeneratorThrew
    \/ RuntimeEndsProcess

Next ==
    \/ GenFetch(FetchOutcomes)
    \/ GenWake(MaxFetches)
    \/ Lifecycle
    \/ \E d \in Disposers : DisposeCall(d)
    \/ \E d \in Disposers : DisposeCleanup(d)
    \/ \E d \in Disposers : DisposeCloses(d)
    \/ \E d \in Disposers : DisposeServerClose(d)
    \/ \E d \in Disposers : DisposeReturns(d)

Spec == Init /\ [][Next]_vars

\* ---------------------------------------------------- properties: life cycle

\* C4: an HTTP 401 on a configuration fetch, the first or a later one, reaches the
\* caller of the proxy as an AuthenticationError: once the polling task rejected
\* and a disposal returned, the caller has received it from proxy() or from the
\* disposal.
C4_AuthenticationErrorReachesCaller ==
    \A d \in Disposers :
        (pollPc = "rejected" /\ disp[d].pc = "done") =>
            \/ startResult = "AuthenticationError"
            \/ disp[d].result = "AuthenticationError"

\* C10: after two concurrent disposals returned, each registered transport had
\* close() invoked once, abort() was invoked once and server.close() once.
C10_TeardownExactlyOnce ==
    (\A d \in Disposers : disp[d].pc = "done") =>
        /\ \A c \in WithTransport(clientsStateMap) : closeCalls[c] = 1
        /\ abortCalls = 1
        /\ serverCloseCalls = 1

\* C12: when the first configuration fetch returns a body that does not parse or
\* lacks mcp.servers, the proxy is never started.
C12_MalformedFirstFetchPreventsStart ==
    (Len(gen.kinds) > 0 /\ gen.kinds[1] = "bad") => startResult # "started"

\* C13: a poll after startup whose body does not parse is swallowed: the generator
\* emits nothing for it and sleeps, its current snapshot is kept, the polling
\* task keeps waiting, no backend is touched, the process goes on; the fetch
\* after it emits its configuration unless that equals the current snapshot.
C13_MalformedPollSwallowed ==
    /\ [][(/\ pollPc = "waiting"
           /\ gen.pc = "fetch"
           /\ gen'.kinds = Append(gen.kinds, "bad"))
          => /\ gen'.pc = "sleep"
             /\ gen'.value = gen.value
             /\ gen'.current = gen.current
             /\ pollPc' = "waiting"
             /\ ~crashed'
             /\ UNCHANGED << fan, registryVars, transportVars >>]_vars
    /\ []((/\ pollPc = "waiting"
           /\ gen.pc = "fetch"
           /\ Len(gen.kinds) > 0
           /\ gen.kinds[Len(gen.kinds)] = "bad")
          => \A c \in Configs :
                ~areConfigurationsEqual(gen.current.cfg, c) =>
                    LET g == GenOnFetch(gen, [kind |-> "ok", cfg |-> c])
                    IN g.pc = "yielded" /\ g.value = c)

\* A started proxy polled a malformed body, then a changed configuration, which
\* the polling loop is applying.
C13_Witness ==
    /\ gen.kinds = << "ok", "bad", "ok" >>
    /\ gen.pc = "yielded"
    /\ pollPc = "inPass"
    /\ pass.owner = "poll"
    /\ server = "bound"

C16_FirstFetchUnauthorized ==
    (Len(gen.kinds) > 0 /\ gen.kinds[1] = "auth") =>
        /\ startResult \in {"pending", "AuthenticationError"}
        /\ proxyPc \in {"awaitFirst", "failed"}
        /\ proxyPc = "failed" => startResult = "AuthenticationError"
        /\ Len(transports) = 0
        /\ Len(clientsStateMap) = 0
        /\ server = "unbound"
        /\ pollPc = "notStarted"

\* The start has failed on a first fetch answered 401.
C16_Witness ==
    /\ gen.kinds = << "auth" >>
    /\ proxyPc = "failed"
    /\ startResult = "AuthenticationError"

C18_NoDuplicateSnapshot ==
    /\ [][(gen'.yields = gen.yields + 1 /\ gen.yields > 0)
             => Stringify(gen'.value) # Stringify(gen.value)]_vars
    /\ []((gen.pc = "fetch" /\ gen.yields > 0)
          => \A c \in Configs :
                Stringify(c) = Stringify(gen.value) =>
                    LET g == GenOnFetch(gen, [kind |-> "ok", cfg |-> c])
                    IN g.pc # "yielded" /\ g.yields = gen.yields /\ g.value = gen.value)

\* Two fetches returned a configuration with backends and one snapshot was
\* yielded: the second was discarded and the generator sleeps.
C18_Witness ==
    /\ gen.kinds = << "ok", "ok" >>
    /\ gen.yields = 1
    /\ gen.pc = "sleep"
    /\ Len(gen.value) > 0
    /\ pollPc = "waiting"

\* C19: once cancellation was signalled, no configuration fetch is started.
C19_NoFetchAfterCancel ==
    [][aborted => gen'.fetches = gen.fetches]_vars

\* C20: when the polling loop takes a snapshot with cancellation signalled, it
\* ends: the task resolves, no transport is closed or created, the registry and
\* the routing table stay as they are, and no pass of the loop begins.
C20_SnapshotAfterCancelNotApplied ==
    /\ [][(aborted /\ pollPc = "waiting" /\ gen.pc = "yielded" /\ pollPc' # pollPc)
             => /\ pollPc' = "resolved"
                /\ pass' = pass
                /\ UNCHANGED << fan, registryVars, transportVars >>]_vars
    /\ [][(pass'.owner = "poll" /\ pass.owner # "poll") => ~aborted]_vars

\* With polling on, the loop ended on the second snapshot, which names backends;
\* the first was empty and no transport was ever created.
C20_Witness ==
    /\ pollInterval > 0
    /\ aborted
    /\ pollPc = "resolved"
    /\ gen.pc = "returned"
    /\ gen.yields = 2
    /\ Len(gen.value) > 0
    /\ Len(transports) = 0

\* C21: with a poll interval of 0 or less the generator makes one fetch, yields
\* at most one snapshot, never sleeps, and when resumed after its fetch it ends.
C21_SingleFetchWhenPollingOff ==
    /\ [](pollInterval <= 0 =>
             /\ gen.fetches <= 1
             /\ gen.yields <= 1
             /\ gen.pc \in {"start", "fetch", "yielded", "returned", "threw"})
    /\ [][(pollInterval <= 0 /\ gen.pc = "yielded" /\ gen'.pc # gen.pc)
             => gen'.pc = "returned"]_vars

\* With polling off the generator has ended after one fetch and one snapshot,
\* and the polling task has resolved on it.
C21_Witness ==
    /\ pollInterval <= 0
    /\ gen.pc = "returned"
    /\ gen.fetches = 1
    /\ gen.yields = 1
    /\ pollPc = "resolved"
    /\ ~aborted

\* C26: a disposal invokes close() on every transport of the registry it read,
\* also when some of these closes fail, and then, in a process that has not
\* ended, nothing holds it from closing the endpoint.
C26_CleanupIsolatesCloseFailures ==
    /\ [][\A d \in Disposers :
             (disp[d].pc = "cleanup" /\ disp'[d].pc = "closing") =>
                 \A c \in WithTransport(disp[d].snap) :
                     /\ closeCalls'[c] = closeCalls[c] + 1
                     /\ transports'[c] = "closed"]_vars
    /\ [](\A d \in Disposers :
             /\ (disp[d].pc = "closing" /\ ~crashed) => ENABLED DisposeServerClose(d)
             /\ disp[d].pc \in {"serverClosing", "done"} =>
                   (server = "closed" /\ serverCloseCalls > 0))

\* A disposal returned after the close of one of its two transports failed: both
\* had close() invoked and the endpoint is closed.
C26_Witness ==
    \E d \in Disposers :
        /\ disp[d].pc = "done"
        /\ Cardinality(WithTransport(disp[d].snap)) = 2
        /\ Cardinality(disp[d].failed) = 1
        /\ \A c \in WithTransport(disp[d].snap) : closeCalls[c] > 0
        /\ server = "closed"

\* C35: when the polling loop takes the snapshot that a soft failure of a
\* background fetch produced, it closes no backend transport and leaves the
\* registry as it is.
C35_SoftFailureKeepsBackends ==
    [][(/\ pollPc = "waiting"
        /\ gen.pc = "yielded"
        /\ gen.kinds[Len(gen.kinds)] = "soft"
        /\ Len(clientsStateMap) > 0
        /\ pollPc' = "inPass")
          => /\ closeCalls' = closeCalls
             /\ transports' = transports]_vars

\* C36: a fetch that returns a configuration while no snapshot was emitted yet
\* is followed by the emission of that configuration, whatever it holds.
C36_FirstFetchedIsEmitted ==
    [][(/\ gen.pc = "fetch"
        /\ gen.yields = 0
        /\ Len(gen'.kinds) > Len(gen.kinds)
        /\ gen'.kinds[Len(gen'.kinds)] = "ok")
          => (gen'.pc = "yielded" /\ gen'.yields = 1)]_vars

\* C39: once proxy() has rejected, no backend transport that it opened is open
\* and no polling task is running.
C39_FailedStartLeavesNothing ==
    startResult \in {"ProxyError", "AuthenticationError", "Error"} =>
        /\ \A c \in DOMAIN transports : transports[c] # "open"
        /\ pollPc \in {"notStarted", "resolved", "rejected"}

MaxConnectFetches == 2

FourServers == << Srv("a", DUrl), Srv("b", DUrl), Srv("c", DCmd), Srv("d", DCmd) >>

ConnectFetchOutcomes ==
    { [kind |-> "ok", cfg |-> c] : c \in { FourServers, EmptyServers } }

NextConnect ==
    \/ GenFetch(ConnectFetchOutcomes)
    \/ GenWake(MaxConnectFetches)
    \/ PassAfterClose
    \/ ConnectSettles
    \/ ConnectClientsFinish
    \/ ProxyStart
    \/ ProxyFirstSnapshot
    \/ ProxyConnected
    \/ ProxyBound
    \/ PollReceives
    \/ PollPassDone
    \/ PollGeneratorReturned

SpecConnect == Init /\ [][NextConnect]_vars

\* The servers of the pass whose connect gave no transport.
FailedConnects ==
    Cardinality({ i \in DOMAIN pass.pending : transports[pass.pending[i].client] = "none" })

\* C9 (as stated): connectClients over N descriptors of which k fail leaves N-k
\* states registered and reports the summary (N-k)/N.
C9_ConnectSummary ==
    pass.pc = "done" =>
        /\ Len(clientsStateMap) = Len(pass.cfg) - FailedConnects
        /\ pass.summary = << Len(pass.cfg) - FailedConnects, Len(pass.cfg) >>

\* C9 (amended): the same for N >= 1; with no descriptor connectClients returns
\* before the summary.
C9_ConnectSummaryNonEmpty ==
    (pass.pc = "done" /\ Len(pass.cfg) >= 1) =>
        /\ Len(clientsStateMap) = Len(pass.cfg) - FailedConnects
        /\ pass.summary = << Len(pass.cfg) - FailedConnects, Len(pass.cfg) >>

\* 4 descriptors, 2 failures: 2 registered, summary 2/4.
C9_Witness ==
    /\ pass.pc = "done"
    /\ Len(pass.cfg) = 4
    /\ FailedConnects = 2
    /\ Len(clientsStateMap) = 2
    /\ pass.summary = << 2, 4 >>

\* Number of configuration fetches in the runs that serve requests.
MaxRequestFetches == 2

\* The snapshots fetched in the runs that serve requests.
RequestFetchOutcomes ==
    { [kind |-> "ok", cfg |-> c] :
        c \in { << Srv("a", DUrl), Srv("b", DUrl) >>, << Srv("b", DUrl) >> } }

\* No call is being observed: the steps of the proxy other than the routed call.
Quiet == rt.status = "idle"

NextRequests ==
    \/ Quiet /\ GenFetch(RequestFetchOutcomes)
    \/ Quiet /\ GenWake(MaxRequestFetches)
    \/ Quiet /\ PassAfterClose
    \/ Quiet /\ ConnectSettles
    \/ Quiet /\ ConnectClientsFinish
    \/ Quiet /\ ProxyStart
    \/ Quiet /\ ProxyFirstSnapshot
    \/ Quiet /\ ProxyConnected
    \/ Quiet /\ ProxyBound
    \/ Quiet /\ PollBreaks
    \/ Quiet /\ PollReceives
    \/ Quiet /\ PollPassDone
    \/ Quiet /\ PollGeneratorReturned
    \/ Quiet /\ DisposeCall("d1")
    \/ Quiet /\ DisposeCleanup("d1")
    \/ Quiet /\ DisposeCloses("d1")
    \/ Quiet /\ DisposeServerClose("d1")
    \/ Quiet /\ DisposeReturns("d1")
    \/ Quiet /\ Broadcast({"tools/list"})
    \/ Quiet /\ BackendResponds(BackendOutcomes("tools/list"))
    \/ Quiet /\ BroadcastComplete
    \/ Quiet /\ Route(ToolCalls)
    \/ RouteResponds
    \/ RouteReturns

SpecRequests == Init /\ [][NextRequests]_vars

\* ------------------------------------------------- properties: request serving

\* The clients of the primary table.
Registered == Range(getAllClients(clientsStateMap))

\* A client that was not torn down: registered, its transport open.
Connected(c) == c \in Registered /\ transports[c] = "open"

\* C1: every routing-table entry references a client of the primary table, or its
\* lookup fails with an error; and no routed call is forwarded to a client whose
\* transport was closed by a resync or by the disposal.
C1_RoutingNeverStale ==
    /\ \A m \in DOMAIN proxyMap : \A k \in DOMAIN proxyMap[m] :
          \/ proxyMap[m][k] \in Registered
          \/ ~getClientFor(proxyMap, m, k).ok
    /\ ~(rt.status = "forwarded" /\ rt.stale)

\* The history entry of the routed call's identifier.
RoutedKey == << rt.method, rt.identifier >>

\* C2 (as stated): a routed call for i goes to every connected backend b that
\* enumerated i in the last broadcast that enumerated i.
C2_RouteToAnyEnumerator ==
    (rt.status # "idle" /\ RoutedKey \in DOMAIN enumBy) =>
        \A b \in {enumBy[RoutedKey].last} \cup enumBy[RoutedKey].others :
            (b # NoClient /\ Connected(b)) => (rt.status = "forwarded" /\ rt.client = b)

\* C2 (amended): a routed call for i goes to the connected backend b that was the
\* last, in enumeration order, to enumerate i in the last broadcast that
\* enumerated i, and to no other client.
C2_RouteToLastEnumerator ==
    (rt.status # "idle" /\ RoutedKey \in DOMAIN enumBy) =>
        LET b == enumBy[RoutedKey].last
        IN (b # NoClient /\ Connected(b)) => (rt.status = "forwarded" /\ rt.client = b)

\* A call routed to the last of two enumerators of its identifier.
C2_Witness ==
    /\ rt.status = "forwarded"
    /\ RoutedKey \in DOMAIN enumBy
    /\ Connected(enumBy[RoutedKey].last)
    /\ rt.client = enumBy[RoutedKey].last
    /\ \E c \in enumBy[RoutedKey].others : Connected(c)

\* C14: a routed call for an identifier that no broadcast ever enumerated fails
\* with an error of the class RoutingNotFound, is forwarded to no backend, and
\* the process goes on.
C14_RoutingNotFound ==
    (rt.status # "idle" /\ RoutedKey \notin DOMAIN enumBy) =>
        /\ rt.status = "failed"
        /\ rt.client = NoClient
        /\ ~crashed
        /\ ErrorClassOf(rt.result) = "RoutingNotFound"

\* The items of the backends whose request succeeded with a list, each with its
\* origin.
ItemsOfSucceeded(settled, clients) ==
    UNION { { prefix(clients[i], settled[i].items[k]) : k \in DOMAIN settled[i].items } :
            i \in { j \in DOMAIN settled : settled[j].status = "fulfilled" /\ settled[j].list } }

\* C3: a broadcast in which some backends reject resolves without raising, and
\* its merged list holds exactly the items of the backends that succeeded.
C3_BroadcastIsolatesFailures ==
    [][(bc.status = "inflight" /\ bc'.status = "done") =>
          /\ ~bc'.raised
          /\ Range(bc'.items) = ItemsOfSucceeded(bc.settled, bc.clients)
          /\ Len(bc'.items) = Cardinality(ItemsOfSucceeded(bc.settled, bc.clients))]_vars

\* A broadcast that returned the items of one backend while the other rejected.
C3_Witness ==
    /\ bc.status = "done"
    /\ bc.rejected > 0
    /\ ~bc.raised
    /\ bc.items # << >>

\* ------------------------------------- the incremental reconciler (reconnectClients)

\* Number of timer ticks of pollConfiguration in one run.
MaxPolls == 1

NoState == [name |-> "", client |-> NoClient, transport |-> FALSE]

\* getAllClientStates().find((state) => state.name === name)
StateOf(map, name) ==
    IF \E i \in DOMAIN map : map[i].name = name
    THEN map[CHOOSE i \in DOMAIN map : map[i].name = name]
    ELSE NoState

\* A descriptor compared as always different.
configChangedAlways(oldConfiguration, name, desc) ==
    name \in ServerNames(oldConfiguration)

\* reconnectClients: existed && JSON.stringify(old[name]) !== JSON.stringify(server)
configChanged(oldConfiguration, name, desc) ==
    /\ name \in ServerNames(oldConfiguration)
    /\ StringifyServer(DescOf(oldConfiguration, name)) # StringifyServer(desc)

\* A removal loop that disconnects every old server.
removedAlways(newConfiguration, oldServerName) == TRUE

\* reconnectClients: !newConfiguration.mcp.servers[oldServerName]
removed(newConfiguration, oldServerName) ==
    oldServerName \notin ServerNames(newConfiguration)

\* A disconnect whose close() error is not caught.
disconnectClientNoCatch(map, pm, state, closeThrew) ==
    IF closeThrew
    THEN [map |-> map, pm |-> pm, raised |-> TRUE]
    ELSE [map |-> removeClientState(map, state.name),
          pm |-> removeClientMappings(pm, state.client), raised |-> FALSE]

\* disconnectClient after its close(): the mappings and the state are removed; a
\* close() that threw is caught and logged, and nothing is removed.
disconnectClient(map, pm, state, closeThrew) ==
    IF closeThrew
    THEN [map |-> map, pm |-> pm, raised |-> FALSE]
    ELSE [map |-> removeClientState(map, state.name),
          pm |-> removeClientMappings(pm, state.client), raised |-> FALSE]

\* createClient(), connect(client, server) settled, setClientState(name, ...): the
\* state is registered with the transport or with undefined.
ConnectAndRegister(name, transport) ==
    /\ transports' = Append(transports, IF transport THEN "open" ELSE "none")
    /\ closeCalls' = Append(closeCalls, 0)
    /\ clientsStateMap' = setClientState(clientsStateMap, name,
                             [name |-> name, client |-> Len(transports) + 1,
                              transport |-> transport])

\* The sequential connectClients is called with the initial configuration.
SeqConnectStart ==
    /\ rec.pc = "init"
    /\ \E cfg \in Configs : rec' = [rec EXCEPT !.pc = "connectAll", !.new = cfg, !.i = 1]
    /\ UNCHANGED << fan, registryVars, transportVars, server, lifecycleVars, requestVars, ry >>

\* One iteration of its loop: the connect of server i settles.
SeqConnectNext ==
    /\ rec.pc = "connectAll"
    /\ rec.i <= Len(rec.new)
    /\ \E transport \in BOOLEAN : ConnectAndRegister(rec.new[rec.i].name, transport)
    /\ rec' = [rec EXCEPT !.i = rec.i + 1]
    /\ UNCHANGED << fan, proxyMap, server, lifecycleVars, requestVars, ry >>

\* connectClients returned; the endpoint is bound and startConfigurationPolling
\* stores the initial configuration.
StartPolling ==
    /\ rec.pc = "connectAll"
    /\ rec.i > Len(rec.new)
    /\ rec' = [rec EXCEPT !.pc = "polling", !.current = SomeConfig(rec.new)]
    /\ server' = "bound"
    /\ UNCHANGED << fan, registryVars, transportVars, lifecycleVars, requestVars, ry >>

\* reconnectClients(old, new) up to its first loop.
reconnectClientsCall(r, old, new, via) ==
    [r EXCEPT !.pc = "loopNew", !.via = via, !.old = old, !.new = new, !.i = 1, !.j = 1,
              !.target = NoClient, !.before = clientsStateMap, !.connects = 0,
              !.disconnects = 0, !.closed = {}, !.failed = {}, !.processed = {}]

\* pollConfiguration on a timer tick, once its fetch settled.
pollConfiguration(r, o) ==
    IF o.kind \in {"auth", "bad"} THEN r
    ELSE IF ~r.current.set THEN [r EXCEPT !.current = SomeConfig(o.cfg)]
    ELSE IF areConfigurationsEqual(r.current.cfg, o.cfg) THEN r
    ELSE reconnectClientsCall(r, r.current.cfg, o.cfg, "poll")

PollTick ==
    /\ rec.pc = "polling"
    /\ rec.polls < MaxPolls
    /\ \E o \in FetchOutcomes :
          rec' = pollConfiguration([rec EXCEPT !.polls = rec.polls + 1], o)
    /\ UNCHANGED << fan, registryVars, transportVars, server, lifecycleVars, requestVars, ry >>

\* A caller invokes reconnectClients with the current configuration twice.
ReconcileSame ==
    /\ rec.pc = "polling"
    /\ rec.current.set
    /\ rec' = reconnectClientsCall(rec, rec.current.cfg, rec.current.cfg, "direct")
    /\ UNCHANGED << fan, registryVars, transportVars, server, lifecycleVars, requestVars, ry >>

\* disconnectClient(name) up to its await: nothing for a name that is not
\* registered; close() invoked on a transport; with no transport the removal at
\* once. after: the pass once disconnectClient has returned without awaiting.
BeginDisconnect(name, closingPc, after) ==
    LET state == StateOf(clientsStateMap, name)
    IN IF state = NoState
       THEN /\ rec' = [after EXCEPT !.disconnects = rec.disconnects + 1]
            /\ UNCHANGED << fan, registryVars, transportVars >>
       ELSE IF state.transport
       THEN /\ transports' = CloseTransports(transports, {state.client})
            /\ closeCalls' = CountCloses(closeCalls, {state.client})
            /\ rec' = [rec EXCEPT !.pc = closingPc, !.target = state.client,
                                  !.disconnects = rec.disconnects + 1,
                                  !.closed = rec.closed \cup {state.client}]
            /\ UNCHANGED registryVars
       ELSE /\ LET r == disconnectClient(clientsStateMap, proxyMap, state, FALSE)
               IN /\ clientsStateMap' = r.map
                  /\ proxyMap' = r.pm
            /\ rec' = [after EXCEPT !.disconnects = rec.disconnects + 1]
            /\ UNCHANGED transportVars

\* reconnectClients, one iteration of the loop over the new servers up to its
\* await: an unchanged server is kept, a changed one is disconnected first, a new
\* or changed one is connected.
ReconnectNewServer ==
    /\ rec.pc = "loopNew"
    /\ rec.i <= Len(rec.new)
    /\ LET name == rec.new[rec.i].name
           desc == rec.new[rec.i].desc
       IN IF name \notin ServerNames(rec.old)
          THEN /\ rec' = [rec EXCEPT !.pc = "connect"]
               /\ UNCHANGED << fan, registryVars, transportVars >>
          ELSE IF configChanged(rec.old, name, desc)
          THEN BeginDisconnect(name, "closeChanged", [rec EXCEPT !.pc = "connect"])
          ELSE /\ rec' = [rec EXCEPT !.i = rec.i + 1,
                                     !.processed = rec.processed \cup {name}]
               /\ UNCHANGED << fan, registryVars, transportVars >>
    /\ UNCHANGED << fan, server, lifecycleVars, requestVars, ry >>

\* The awaited close() of disconnectClient settles, normally or by throwing; a
\* close() that threw may have left the transport open.
DisconnectSettles ==
    /\ rec.pc \in {"closeChanged", "closeRemoved"}
    /\ \E closeThrew \in BOOLEAN :
          LET name == IF rec.pc = "closeChanged" THEN rec.new[rec.i].name
                      ELSE rec.old[rec.j].name
              r == disconnectClient(clientsStateMap, proxyMap,
                      [name |-> name, client |-> rec.target, transport |-> TRUE],
                      closeThrew)
              failed == IF closeThrew THEN rec.failed \cup {name} ELSE rec.failed
          IN /\ clientsStateMap' = r.map
             /\ proxyMap' = r.pm
             /\ \E left \in IF closeThrew THEN {"open", "closed"} ELSE {"closed"} :
                   transports' = [transports EXCEPT ![rec.target] = left]
             /\ rec' = IF r.raised
                       THEN [rec EXCEPT !.pc = "raised", !.failed = failed]
                       ELSE IF rec.pc = "closeChanged"
                       THEN [rec EXCEPT !.pc = "connect", !.failed = failed]
                       ELSE [rec EXCEPT !.pc = "loopOld", !.j = rec.j + 1,
                                        !.failed = failed,
                                        !.processed = rec.processed \cup {name}]
    /\ UNCHANGED << fan, closeCalls, server, lifecycleVars, requestVars, ry >>

\* reconnectClients: createClient(), the awaited connect settles, setClientState.
ReconnectSettles ==
    /\ rec.pc = "connect"
    /\ LET name == rec.new[rec.i].name
       IN \E transport \in BOOLEAN :
             /\ ConnectAndRegister(name, transport)
             /\ rec' = [rec EXCEPT !.pc = "loopNew", !.i = rec.i + 1,
                                   !.connects = rec.connects + 1,
                                   !.failed = IF transport THEN rec.failed
                                              ELSE rec.failed \cup {name},
                                   !.processed = rec.processed \cup {name}]
    /\ UNCHANGED << fan, proxyMap, server, lifecycleVars, requestVars, ry >>

\* The loop over the new servers ended; the loop over the old names begins.
ReconnectNewDone ==
    /\ rec.pc = "loopNew"
    /\ rec.i > Len(rec.new)
    /\ rec' = [rec EXCEPT !.pc = "loopOld", !.j = 1]
    /\ UNCHANGED << fan, registryVars, transportVars, server, lifecycleVars, requestVars, ry >>

\* reconnectClients, one iteration of the loop over the old names up to its await:
\* a name the new configuration lacks is disconnected.
ReconnectOldServer ==
    /\ rec.pc = "loopOld"
    /\ rec.j <= Len(rec.old)
    /\ LET name == rec.old[rec.j].name
       IN IF removed(rec.new, name)
          THEN BeginDisconnect(name, "closeRemoved",
                  [rec EXCEPT !.j = rec.j + 1, !.processed = rec.processed \cup {name}])
          ELSE /\ rec' = [rec EXCEPT !.j = rec.j + 1]
               /\ UNCHANGED << fan, registryVars, transportVars >>
    /\ UNCHANGED << fan, server, lifecycleVars, requestVars, ry >>

\* reconnectClients returns.
ReconnectReturns ==
    /\ rec.pc = "loopOld"
    /\ rec.j > Len(rec.old)
    /\ rec' = [rec EXCEPT !.pc = "done"]
    /\ UNCHANGED << fan, registryVars, transportVars, server, lifecycleVars, requestVars, ry >>

\* pollConfiguration after the pass: currentConfiguration = newConfiguration when
\* it returned, the error logged when it threw; a direct caller just goes on.
PollApplied ==
    /\ rec.pc \in {"done", "raised"}
    /\ rec' = [IdleRec EXCEPT !.pc = "polling", !.polls = rec.polls,
                              !.current = IF rec.pc = "done" /\ rec.via = "poll"
                                          THEN SomeConfig(rec.new) ELSE rec.current]
    /\ UNCHANGED << fan, registryVars, transportVars, server, lifecycleVars, requestVars, ry >>

\* What a backend answers to tools/list in the runs of the reconciler.
ReconcileBackendOutcomes ==
    { [kind |-> "ok", items |-> << Item("x", "") >>], [kind |-> "Error", items |-> << >>] }

\* In the runs of the reconciler a broadcast is served between two passes.
BetweenPasses == rec.pc = "polling"

NextReconcile ==
    \/ SeqConnectStart
    \/ SeqConnectNext
    \/ StartPolling
    \/ PollTick
    \/ ReconcileSame
    \/ ReconnectNewServer
    \/ DisconnectSettles
    \/ ReconnectSettles
    \/ ReconnectNewDone
    \/ ReconnectOldServer
    \/ ReconnectReturns
    \/ PollApplied
    \/ BetweenPasses /\ Broadcast({"tools/list"})
    \/ BetweenPasses /\ BackendResponds(ReconcileBackendOutcomes)
    \/ BetweenPasses /\ BroadcastComplete

SpecReconcile == Init /\ [][NextReconcile]_vars

\* --------------------------------------------------- properties: reconciler

\* The names both configurations of the pass hold with the same descriptor.
UnchangedNames ==
    { n \in ServerNames(rec.old) \cap ServerNames(rec.new) :
        StringifyServer(DescOf(rec.old, n)) = StringifyServer(DescOf(rec.new, n)) }

\* The names of the old configuration that the new one lacks.
RemovedNames == ServerNames(rec.old) \ ServerNames(rec.new)

PassReturned == rec.pc = "done"

\* C5: reconcile(C, C) begins no connect and no disconnect, invokes no close(), and
\* leaves the registry with the same states, the same client objects, as before.
C5_ReconcileSameIsNoOp ==
    (PassReturned /\ rec.old = rec.new) =>
        /\ rec.connects = 0
        /\ rec.disconnects = 0
        /\ rec.closed = {}
        /\ clientsStateMap = rec.before

\* reconcile(C, C) returned, for a C of two servers, both registered.
C5_Witness ==
    /\ PassReturned
    /\ rec.old = rec.new
    /\ Len(rec.new) = 2
    /\ Len(clientsStateMap) = 2

\* C6: throughout a pass and after it, a name in both configurations with an
\* unchanged descriptor keeps the client object it had before the pass, and
\* close() is not invoked on that client's transport.
C6_UnchangedUntouched ==
    rec.pc \in {"loopNew", "closeChanged", "connect", "loopOld", "closeRemoved", "done"} =>
        \A n \in UnchangedNames :
            /\ StateOf(clientsStateMap, n) = StateOf(rec.before, n)
            /\ StateOf(rec.before, n).client \notin rec.closed

\* A pass that returned after disconnecting and connecting other servers, with an
\* unchanged server registered.
C6_Witness ==
    /\ PassReturned
    /\ rec.connects > 0
    /\ rec.disconnects > 0
    /\ \E n \in UnchangedNames : StateOf(clientsStateMap, n) # NoState

\* C7: after a pass returned, a name of the old configuration that the new one
\* lacks is not in the registry, and no routing-table entry references the client
\* it had before the pass.
C7_RemovedAreGone ==
    PassReturned =>
        \A n \in RemovedNames :
            /\ StateOf(clientsStateMap, n) = NoState
            /\ StateOf(rec.before, n) # NoState =>
                  StateOf(rec.before, n).client \notin RoutedClients(proxyMap)

\* C8: a pass never raises, and when it returned every name of the old and of the
\* new configuration had its iteration, whatever failed for another name.
C8_PassIsolatesFailures ==
    /\ rec.pc # "raised"
    /\ PassReturned => rec.processed = ServerNames(rec.old) \cup ServerNames(rec.new)

\* A pass that returned although the close() or the connect of its first server
\* failed, having connected a later server.
C8_Witness ==
    /\ PassReturned
    /\ Len(rec.new) = 2
    /\ rec.new[1].name \in rec.failed
    /\ rec.new[2].name \notin rec.failed
    /\ StateOf(clientsStateMap, rec.new[2].name) # StateOf(rec.before, rec.new[2].name)
\* C25: every state of the primary table holds a transport: a backend whose
\* connect returned undefined is not registered.
C25_NoTransportNotRegistered ==
    \A i \in DOMAIN clientsStateMap :
        /\ clientsStateMap[i].transport
        /\ transports[clientsStateMap[i].client] # "none"

\* C27: while a broadcast waits for the outcome of a backend it dispatched to, no
\* disposal invokes close() on the transport of that backend.
C27_DisposalAwaitsBroadcast ==
    [][\A i \in DOMAIN bc.settled :
          (/\ bc.status = "inflight"
           /\ bc.settled[i].status = "pending"
           /\ \E d \in Disposers : disp[d].pc = "cleanup" /\ disp'[d].pc = "closing")
          => closeCalls'[bc.clients[i]] = closeCalls[bc.clients[i]]]_vars

\* C28: a routed call that the owning backend answers with MethodNotFound or
\* with RequestTimeout is fulfilled with the empty result {}, not rejected.
C28_RouteDegradesToEmpty ==
    (rt.status = "forwarded" /\ rt.answer \in {"MethodNotFound", "RequestTimeout"}) =>
        rt.reply = [status |-> "fulfilled", list |-> FALSE, items |-> << >>]

\* A call routed to a connected backend that answered MethodNotFound, fulfilled.
C28_Witness ==
    /\ rt.status = "forwarded"
    /\ Connected(rt.client)
    /\ rt.answer = "MethodNotFound"
    /\ rt.reply.status = "fulfilled"

\* The indices of the settled results whose list holds identifier id.
EnumeratingIndices(settled, id) ==
    { i \in DOMAIN settled : \E k \in DOMAIN settled[i].items : settled[i].items[k].name = id }

\* C29: when a broadcast completes, the route of every identifier it enumerated
\* is the client that stands last in the registry order among those that
\* enumerated it, whatever the order in which the answers arrived.
C29_LaterEnumeratorWins ==
    [][(bc.status = "inflight" /\ bc'.status = "done") =>
          \A id \in EnumeratedIds(bc.settled) :
              LET hit == EnumeratingIndices(bc.settled, id)
                  top == CHOOSE i \in hit : \A j \in hit : j <= i
                  found == getClientFor(proxyMap', getReadMethodFor(bc.method), id)
              IN found.ok /\ found.client = bc.clients[top]]_vars

\* A broadcast completed in which both backends enumerated x and the second of
\* the registry answered first; the route of x is the second.
C29_Witness ==
    /\ bc.status = "done"
    /\ bc.order = << 2, 1 >>
    /\ Len(clientsStateMap) = 2
    /\ << "tools/call", "x" >> \in DOMAIN enumBy
    /\ enumBy[<< "tools/call", "x" >>].last = clientsStateMap[2].client
    /\ clientsStateMap[1].client \in enumBy[<< "tools/call", "x" >>].others
    /\ getClientFor(proxyMap, "tools/call", "x").client = clientsStateMap[2].client

\* C30: a completing broadcast adds no routing-table entry that points to a
\* client that is not in the primary table any more.
C30_NoRoutesToTornDown ==
    [][(bc.status = "inflight" /\ bc'.status = "done") =>
          RoutedClients(proxyMap') \subseteq (Registered \cup RoutedClients(proxyMap))]_vars

\* C37: a handler that starts while a resync awaits the closes it invoked does not
\* observe a connection that the resync closed: a broadcast does not take such a
\* client from the primary table, and a routed call is not given one by the
\* routing table.
C37_NoHalfUpdatedRegistry ==
    [][pass.pc = "closing" =>
          /\ (bc.status # "inflight" /\ bc'.status = "inflight") =>
                \A i \in DOMAIN bc'.clients : transports[bc'.clients[i]] # "closed"
          /\ (rt.status = "idle" /\ rt'.status = "forwarded") =>
                transports[rt'.client] # "closed"]_vars

\* ------------------------------------------------ retry and connect

NextRetry ==
    \/ RetryCall
    \/ FnSettles
    \/ ConnectHTTPSettles
    \/ ConnectSSESettles
    \/ ConnectStdioSettles
    \/ ConnectNothing
    \/ RetryDelayEnds

SpecRetry == Init /\ [][NextRetry]_vars

\* C22: when retry returns after every attempt of an operation failed, with
\* options d, f, n, m, the operation was invoked n+1 times and n delays were
\* awaited, the k-th of them min(d * f^(k-1), m), none after the last attempt;
\* with d = 500, f = 3, n = 2 the delays are 500 and 1500.
C22_BackoffSchedule ==
    (ry.fn = "op" /\ ry.pc = "returned" /\ ry.result # "value") =>
        /\ ry.calls = ry.opts.maxRetries + 1
        /\ Len(ry.waits) = ry.opts.maxRetries
        /\ \A k \in 1..Len(ry.waits) :
              ry.waits[k] = Min(ry.opts.initialDelay * Pow(ry.opts.backoffFactor, k - 1),
                                ry.opts.maxDelay)
        /\ (ry.opts.initialDelay = 500 /\ ry.opts.backoffFactor = 3
              /\ ry.opts.maxRetries = 2 /\ ry.opts.maxDelay = 30000)
             => ry.waits = << 500, 1500 >>

\* retry has returned after three failed attempts with d = 500, f = 3, n = 2.
C22_Witness ==
    /\ ry.fn = "op" /\ ry.pc = "returned" /\ ry.result = "fallback"
    /\ ry.opts.initialDelay = 500 /\ ry.opts.backoffFactor = 3
    /\ ry.opts.maxRetries = 2 /\ ry.opts.maxDelay = 30000
    /\ ry.calls = 3
    /\ ry.waits = << 500, 1500 >>

\* C23: retry never raises; it invokes fn at most maxRetries + 1 times, and when
\* it has returned with every invocation failed, by a throw or by a rejection,
\* its result is the fallback value of its options, undefined by default.
C23_RetryNeverRaises ==
    /\ ry.pc # "raised"
    /\ ry.result # "raised"
    /\ ry.pc # "idle" => ry.calls <= ry.opts.maxRetries + 1
    /\ (/\ ry.pc = "returned"
        /\ \A i \in DOMAIN ry.tried :
              ry.tried[i] # << >> /\ ry.tried[i][Len(ry.tried[i])] \in {"throw", "reject"})
       => ry.result = ry.opts.fallbackValue
    /\ DefaultRetryOptions.fallbackValue = "undefined"

\* retry returned the fallback after a throw and then a rejection of fn.
C23_Witness ==
    /\ ry.pc = "returned"
    /\ ry.tried = << << "throw" >>, << "reject" >> >>
    /\ ry.opts.maxRetries = 1
    /\ ry.result = "fallback"
    /\ ry.opts.fallbackValue = "fallback"

\* C24: in a connect for a descriptor with a url every invocation tries HTTP
\* first and SSE only after HTTP failed; an invocation is followed by a delay
\* only when both failed; the transport that connected is what is returned, and
\* the fallback only after both failed in every invocation.
C24_HTTPThenSSE ==
    ry.fn = "url" =>
        /\ \A i \in DOMAIN ry.tried :
              /\ ry.tried[i] \in {<< >>, << "http" >>, << "http", "sse" >>}
              /\ i < Len(ry.tried) => ry.tried[i] = << "http", "sse" >>
        /\ Len(ry.waits) = IF ry.pc = "waiting" THEN Len(ry.tried) ELSE Len(ry.tried) - 1
        /\ ry.pc = "waiting" => ry.tried[Len(ry.tried)] = << "http", "sse" >>
        /\ ry.pc = "returned" =>
              /\ ry.result \in {"http", "sse", "undefined"}
              /\ ry.result = "http" => ry.tried[Len(ry.tried)] = << "http" >>
              /\ ry.result \in {"sse", "undefined"} =>
                    ry.tried[Len(ry.tried)] = << "http", "sse" >>
              /\ ry.result = "undefined" => ry.calls = DefaultRetryOptions.maxRetries + 1

\* A connect whose first invocation failed on both transports and whose second
\* connected on SSE after HTTP failed.
C24_Witness ==
    /\ ry.fn = "url"
    /\ ry.pc = "returned"
    /\ ry.result = "sse"
    /\ ry.tried = << << "http", "sse" >>, << "http", "sse" >> >>
    /\ ry.waits = << 1000 >>

\* ------------------------- config.ts:167-179: initializeConfiguration and its caller

MaxInitFetches == 2

\* clients.ts:25-48 for the startup call of a proxy() that no longer holds the
\* only pass: one client per server, every connect started.
FanOut(cfg, ts) ==
    IF Len(cfg) = 0
    THEN [owner |-> "startup", pc |-> "done", cfg |-> cfg, pending |-> << >>,
          summary |-> << >>]
    ELSE [owner |-> "startup", pc |-> "connecting", cfg |-> cfg,
          pending |-> [i \in 1..Len(cfg) |->
                         [name |-> cfg[i].name, client |-> Len(ts) + i,
                          status |-> "pending"]],
          summary |-> << >>]

\* A pass is executing: it awaits the closes or the connects it started.
Executing(p) == p.pc \in {"closing", "connecting"}

\* config.ts:173-178 and its caller: the first snapshot arrived; the polling task
\* is started (void startConfigurationPolling, which asks the generator for the
\* next snapshot), the snapshot is returned, and the caller awaits
\* connectClients(configuration).
InitFirstSnapshot ==
    /\ ~crashed
    /\ proxyPc = "awaitFirst"
    /\ gen.pc = "yielded"
    /\ pollPc' = "waiting"
    /\ gen' = GenNext(gen)
    /\ proxyPc' = "connecting"
    /\ fan' = FanOut(gen.value, transports)
    /\ transports' = transports \o [i \in 1..Len(gen.value) |-> "pending"]
    /\ closeCalls' = closeCalls \o [i \in 1..Len(gen.value) |-> 0]
    /\ UNCHANGED << registryVars, pollInterval, startResult, server, serverCloseCalls,
                    abortVars, unhandled, crashed, pass, disp, requestVars, rec, ry >>

\* The generator ended without a snapshot: the polling task is started on the
\* finished generator, undefined is returned and no backend is connected.
InitNoSnapshot ==
    /\ ~crashed
    /\ proxyPc = "awaitFirst"
    /\ gen.pc = "returned"
    /\ pollPc' = "waiting"
    /\ proxyPc' = "binding"
    /\ UNCHANGED << registryVars, transportVars, pollInterval, gen, startResult, server,
                    serverCloseCalls, abortVars, unhandled, crashed, pass, disp,
                    requestVars, rec, ry, fan >>

\* The first fetch was a 401: generator.next() rejects before the polling task is
\* started, and the caller, which has no catch block, rejects with it.
InitAuthFailure ==
    /\ ~crashed
    /\ proxyPc = "awaitFirst"
    /\ gen.pc = "threw"
    /\ proxyPc' = "failed"
    /\ startResult' = "AuthenticationError"
    /\ UNCHANGED << registryVars, transportVars, pollInterval, gen, server,
                    serverCloseCalls, abortVars, pollPc, unhandled, crashed, pass, disp,
                    requestVars, rec, ry, fan >>

\* One connect of the startup call settles (clients.ts:36-46).
FanConnectSettles ==
    /\ ~crashed
    /\ fan.pc = "connecting"
    /\ \E i \in DOMAIN fan.pending, transport \in BOOLEAN :
          /\ fan.pending[i].status = "pending"
          /\ LET r == ConnectCallback(clientsStateMap, fan.pending[i], transport)
             IN /\ clientsStateMap' = r.map
                /\ fan' = [fan EXCEPT !.pending[i].status = r.status]
          /\ transports' = [transports EXCEPT ![fan.pending[i].client] =
                               IF transport THEN "open" ELSE "none"]
    /\ UNCHANGED << proxyMap, closeCalls, pollInterval, gen, proxyVars, abortVars,
                    pollPc, unhandled, crashed, pass, disp, requestVars, rec, ry >>

\* The startup connectClients returns (clients.ts:50-52); server.connect(transport)
\* is awaited.
FanFinish ==
    /\ ~crashed
    /\ proxyPc = "connecting"
    /\ \/ fan.pc = "done"
       \/ /\ fan.pc = "connecting"
          /\ \A i \in DOMAIN fan.pending : fan.pending[i].status # "pending"
    /\ fan' = [fan EXCEPT !.pc = "done", !.summary = ConnectSummary(fan.pending)]
    /\ proxyPc' = "binding"
    /\ UNCHANGED << registryVars, transportVars, pollInterval, gen, startResult, server,
                    serverCloseCalls, abortVars, pollPc, unhandled, crashed, pass, disp,
                    requestVars, rec, ry >>

\* server.connect(transport) resolved: the proxy is started.
InitBound ==
    /\ ~crashed
    /\ proxyPc = "binding"
    /\ proxyPc' = "started"
    /\ server' = "bound"
    /\ startResult' = "started"
    /\ UNCHANGED << registryVars, transportVars, pollInterval, gen, serverCloseCalls,
                    abortVars, pollPc, unhandled, crashed, pass, disp, requestVars,
                    rec, ry, fan >>

\* server.connect(transport) threw: the caller rejects with the error as it is;
\* nothing is closed and the abort controller is not signalled.
InitBindFailure ==
    /\ ~crashed
    /\ proxyPc = "binding"
    /\ proxyPc' = "failed"
    /\ startResult' = "Error"
    /\ UNCHANGED << registryVars, transportVars, pollInterval, gen, server,
                    serverCloseCalls, abortVars, pollPc, unhandled, crashed, pass, disp,
                    requestVars, rec, ry, fan >>

\* The disposal routine of the same start routine: abort(), then cleanup(), which
\* snapshots the registry at once; the polling task is not awaited.
InitDispose(d) ==
    /\ ~crashed
    /\ proxyPc = "started"
    /\ disp[d].pc = "idle"
    /\ aborted' = TRUE
    /\ abortCalls' = abortCalls + 1
    /\ disp' = [disp EXCEPT ![d].pc = "cleanup", ![d].snap = clientsStateMap]
    /\ UNCHANGED << registryVars, transportVars, pollInterval, gen, proxyVars, pollPc,
                    unhandled, crashed, pass, requestVars, rec, ry, fan >>

NextInit ==
    \/ GenFetch(FetchOutcomes)
    \/ GenWake(MaxInitFetches)
    \/ ProxyStart
    \/ InitFirstSnapshot
    \/ InitNoSnapshot
    \/ InitAuthFailure
    \/ FanConnectSettles
    \/ FanFinish
    \/ InitBound
    \/ InitBindFailure
    \/ InitDispose("d1")
    \/ DisposeCloses("d1")
    \/ DisposeServerClose("d1")
    \/ DisposeReturns("d1")
    \/ PollBreaks
    \/ PollReceives
    \/ PassAfterClose
    \/ ConnectSettles
    \/ ConnectClientsFinish
    \/ PollPassDone
    \/ PollGeneratorReturned
    \/ PollGeneratorThrew
    \/ RuntimeEndsProcess

SpecInit == Init /\ [][NextInit]_vars

\* C31: at most one connect or resync pass is executing at any time: a polled
\* snapshot is not applied while the startup connectClients still awaits its
\* connects.
C31_OnePassAtATime == ~(Executing(fan) /\ Executing(pass))

\* The clients whose connect delivered a transport.
Opened(ts) == { c \in DOMAIN ts : ts[c] \in {"open", "closed"} }

\* C34: at every point where no pass is executing, every transport that was opened
\* is held by a state of the primary table or has had close() invoked on it; and
\* once a disposal returned, close() was invoked on every opened transport.
C34_NoTransportLeak ==
    /\ (~Executing(fan) /\ ~Executing(pass)) =>
          \A c \in Opened(transports) :
              c \in WithTransport(clientsStateMap) \/ closeCalls[c] > 0
    /\ (\E d \in Disposers : disp[d].pc = "done") =>
          (~Executing(pass) => \A c \in Opened(transports) : closeCalls[c] > 0)

\* reconnectClients connects entry k of the new configuration: its name is new
\* or its descriptor changed (part_010:105-121).
NeedsConnect(old, new, k) ==
    \/ new[k].name \notin ServerNames(old)
    \/ configChanged(old, new[k].name, new[k].desc)

\* C38: within one reconciliation pass the connects run concurrently: when the
\* connect of one backend settles, the connect of every other backend the pass
\* connects has been initiated, that is, no later entry of the new configuration
\* still waits for its iteration.
C38_ConnectsRunConcurrently ==
    [][(rec.pc = "connect" /\ rec'.pc # "connect") =>
          \A k \in DOMAIN rec.new :
              k > rec.i => ~NeedsConnect(rec.old, rec.new, k)]_vars

\* The names registered in the primary table.
RegisteredNames(map) == { map[i].name : i \in DOMAIN map }

\* C32: between two passes of the reconciler, with the last pass applied, every
\* registered backend is one of the current configuration: no backend that only
\* an older snapshot named remains registered.
C32_RegistryConverges ==
    (rec.pc = "polling" /\ rec.current.set) =>
        RegisteredNames(clientsStateMap) \subseteq ServerNames(rec.current.cfg)

\* --------------------------------- disposal under a configuration that has settled

\* The snapshots the generator yields before the fetched configuration stops
\* changing, and the length up to which the history of its fetches is kept.
MaxLiveYields == 2
MaxLiveFetches == 2

\* What a fetch returns once the configuration no longer changes: the current one.
StableOutcomes(g) ==
    { o \in FetchOutcomes : o.kind = "ok" /\ g.current.set /\ o.cfg = g.current.cfg }

LiveOutcomes(g) == IF g.yields < MaxLiveYields THEN FetchOutcomes ELSE StableOutcomes(g)

\* The history fields of the generator kept to a fixed length: the loop of
\* config.ts:102-136 itself has no bound.
Saturated(g) ==
    [g EXCEPT !.fetches = Min(g.fetches, MaxLiveFetches),
              !.kinds = IF Len(g.kinds) > MaxLiveFetches
                        THEN SubSeq(g.kinds, 1, MaxLiveFetches) ELSE g.kinds]

\* config.ts:104-129: the awaited fetch settles.
GenFetchLive ==
    /\ ~crashed
    /\ gen.pc = "fetch"
    /\ \E o \in LiveOutcomes(gen) : gen' = Saturated(GenOnFetch(gen, o))
    /\ UNCHANGED << registryVars, transportVars, pollInterval, proxyVars, abortVars,
                    pollPc, unhandled, crashed, pass, disp, requestVars, rec, ry, fan >>

\* config.ts:135: the delay ends and the loop fetches again, without end.
GenWakeLive ==
    /\ ~crashed
    /\ gen.pc = "sleep"
    /\ gen' = Saturated([gen EXCEPT !.pc = "fetch", !.fetches = gen.fetches + 1])
    /\ UNCHANGED << registryVars, transportVars, pollInterval, proxyVars, abortVars,
                    pollPc, unhandled, crashed, pass, disp, requestVars, rec, ry, fan >>

\* The steps of one disposal after its call.
DisposeSteps ==
    \/ DisposeCleanup("d1")
    \/ DisposeCloses("d1")
    \/ DisposeServerClose("d1")
    \/ DisposeReturns("d1")

NextLive ==
    \/ GenFetchLive
    \/ GenWakeLive
    \/ Lifecycle
    \/ DisposeCall("d1")
    \/ DisposeSteps

\* Timers fire and awaited promises settle: every step of the generator, of the
\* start sequence and polling loop, and of a disposal that was called is taken
\* when it stays possible. What a fetch returns and whether the caller disposes
\* is left open.
SpecLive ==
    /\ Init
    /\ [][NextLive]_vars
    /\ WF_vars(GenFetchLive)
    /\ WF_vars(GenWakeLive)
    /\ WF_vars(Lifecycle)
    /\ WF_vars(DisposeSteps)

\* C33: with polling on, a disposal that was called completes, unless the runtime
\* ended the process: the polling task settles, so the await on it returns, and
\* the backends and the endpoint get closed.
C33_DisposalCompletes ==
    (disp["d1"].pc = "awaitPolling" /\ pollInterval > 0)
        ~> (disp["d1"].pc = "done" \/ crashed)

\* ------------------------------------------------ enumerating and reading resources

\* The start of the proxy, then resources/list broadcasts and resources/read
\* calls on the backends it connected.
NextResources ==
    \/ Quiet /\ GenFetch(RequestFetchOutcomes)
    \/ Quiet /\ ConnectSettles
    \/ Quiet /\ ConnectClientsFinish
    \/ Quiet /\ ProxyStart
    \/ Quiet /\ ProxyFirstSnapshot
    \/ Quiet /\ ProxyConnected
    \/ Quiet /\ ProxyBound
    \/ Quiet /\ Broadcast({"resources/list", "tools/list"})
    \/ Quiet /\ BackendResponds(BackendOutcomes(bc.method))
    \/ Quiet /\ BroadcastComplete
    \/ Quiet /\ Route(ResourceReads \cup ToolCalls)
    \/ RouteResponds
    \/ RouteReturns

SpecResources == Init /\ [][NextResources]_vars

\* C40: a follow-up call is looked up under the identifier its item was recorded
\* under: a call whose identifier is the name or, with no name, the uri of an item
\* that the last broadcast of the category returned, all backends still being
\* connected, is forwarded.
C40_RouteFindsEnumerated ==
    (/\ rt.status # "idle"
     /\ bc.status = "done"
     /\ getReadMethodFor(bc.method) = rt.method
     /\ \E k \in DOMAIN bc.items :
           rt.identifier = IF rt.method = "resources/read" /\ bc.items[k].uri # ""
                           THEN bc.items[k].uri ELSE bc.items[k].name)
        => rt.status = "forwarded"

====
